---------------------------- MODULE Spec2Model ----------------------------
(***************************************************************************)
(* Media gallery server (src/server/server.js, the version that starts at  *)
(* line 254): the directory scanner that fills the catalog and the         *)
(* tag-query search that reads it.                                         *)
(*                                                                         *)
(* A JavaScript string is a sequence of one-character strings, so that     *)
(* split, trim, extname, LIKE and localeCompare are computed on the        *)
(* characters and never assumed.                                           *)
(***************************************************************************)
EXTENDS Integers, Sequences, FiniteSets, TLC

\* ------------------------------------------------------------------
\* Bounds of the model
\* ------------------------------------------------------------------

\* Number of POST /api/scan requests in one behaviour (ids grow with every scan).
MaxScans == 2

\* Number of comma-separated clauses in an enumerated tag query.
MaxClauses == 2

\* Length of an enumerated raw string handed to parseTagQuery.
MaxLen == 5

\* The largest number of writes a failing repository accepts before it
\* rejects one.
MaxWrites == 6

\* ------------------------------------------------------------------
\* Characters and strings
\* ------------------------------------------------------------------

UpperSeq == << "A", "B", "C", "D", "E", "F", "G", "H", "I", "J", "K", "L", "M",
               "N", "O", "P", "Q", "R", "S", "T", "U", "V", "W", "X", "Y", "Z" >>

LowerSeq == << "a", "b", "c", "d", "e", "f", "g", "h", "i", "j", "k", "l", "m",
               "n", "o", "p", "q", "r", "s", "t", "u", "v", "w", "x", "y", "z" >>

DigitSeq == << "0", "1", "2", "3", "4", "5", "6", "7", "8", "9" >>

IsUpper(c) == \E i \in 1..26 : UpperSeq[i] = c

IsLower(c) == \E i \in 1..26 : LowerSeq[i] = c

IsDigit(c) == \E i \in 1..10 : DigitSeq[i] = c

DigitVal(c) == (CHOOSE i \in 1..10 : DigitSeq[i] = c) - 1

\* String.prototype.toLowerCase on one character.
LowerChar(c) == IF IsUpper(c) THEN LowerSeq[CHOOSE i \in 1..26 : UpperSeq[i] = c] ELSE c

toLowerCase(s) == [i \in 1..Len(s) |-> LowerChar(s[i])]

IsSpace(c) == c = " "

RECURSIVE TrimStart(_)
TrimStart(s) == IF s # << >> /\ IsSpace(Head(s)) THEN TrimStart(Tail(s)) ELSE s

RECURSIVE TrimEnd(_)
TrimEnd(s) ==
    IF s # << >> /\ IsSpace(s[Len(s)]) THEN TrimEnd(SubSeq(s, 1, Len(s) - 1)) ELSE s

\* String.prototype.trim
trim(s) == TrimEnd(TrimStart(s))

\* String.prototype.split(sep) for a one-character separator: always at least
\* one piece, empty pieces kept.
RECURSIVE SplitFrom(_, _, _)
SplitFrom(s, sep, cur) ==
    IF s = << >> THEN << cur >>
    ELSE IF Head(s) = sep THEN << cur >> \o SplitFrom(Tail(s), sep, << >>)
    ELSE SplitFrom(Tail(s), sep, Append(cur, Head(s)))

split(s, sep) == SplitFrom(s, sep, << >>)

\* Array.prototype.join(sep) on an array of strings.
RECURSIVE join(_, _)
join(parts, sep) ==
    IF parts = << >> THEN << >>
    ELSE IF Len(parts) = 1 THEN parts[1]
    ELSE parts[1] \o << sep >> \o join(Tail(parts), sep)

\* Array.prototype.map(t => t.trim())
MapTrim(parts) == [i \in 1..Len(parts) |-> trim(parts[i])]

\* Array.prototype.filter(t => t !== '')
FilterNonEmpty(parts) == SelectSeq(parts, LAMBDA t : t # << >>)

includes(s, c) == \E i \in 1..Len(s) : s[i] = c

startsWith(s, c) == s # << >> /\ s[1] = c

\* Array.prototype.includes on an array (here a set) of strings.
Member(x, S) == x \in S

\* [...new Set(xs)]: duplicates dropped, first occurrences kept in order.
\* [...new Set(xs)] without the Set.
Unique_KeepsAll(xs) == xs

RECURSIVE Unique(_)
Unique(xs) ==
    IF xs = << >> THEN << >>
    ELSE LET init == Unique(SubSeq(xs, 1, Len(xs) - 1))
             last == xs[Len(xs)]
         IN  IF \E i \in 1..Len(init) : init[i] = last THEN init ELSE Append(init, last)

\* path.extname: from the last "." to the end; empty if there is none or the
\* only one is the first character.
extname(name) ==
    LET dots == {i \in 1..Len(name) : name[i] = "."}
    IN  IF dots = {} THEN << >>
        ELSE LET k == CHOOSE i \in dots : \A j \in dots : j <= i
             IN  IF k = 1 THEN << >> ELSE SubSeq(name, k, Len(name))

\* path.join(dir, item)
PathJoin(dir, item) == dir \o << "/" >> \o item


\* ------------------------------------------------------------------
\* String.prototype.localeCompare(b, undefined, {numeric: true, sensitivity: 'base'})
\* ------------------------------------------------------------------

\* The punctuation and symbol characters used in names, in collation order;
\* all of them sort before the digits, which sort before the letters.
PunctSeq == << " ", "_", "-", ",", ".", "/", "%", "+", "|" >>

\* Primary weight of a character that is not a digit: case is ignored.
CharWeight(c) ==
    IF IsUpper(c) \/ IsLower(c)
    THEN 100 + (CHOOSE i \in 1..26 : LowerSeq[i] = LowerChar(c))
    ELSE CHOOSE i \in 1..Len(PunctSeq) : PunctSeq[i] = c

\* Weight shared by all digit runs: between the symbols and the letters.
NumberWeight == 50

\* The collation key of a string: one element per character, except that a
\* maximal run of digits is one element carrying its numeric value.
RECURSIVE CollationKey(_, _, _)
CollationKey(s, inNum, num) ==
    IF s = << >>
    THEN IF inNum THEN << [w |-> NumberWeight, v |-> num] >> ELSE << >>
    ELSE IF IsDigit(Head(s))
    THEN CollationKey(Tail(s), TRUE, (IF inNum THEN num * 10 ELSE 0) + DigitVal(Head(s)))
    ELSE (IF inNum THEN << [w |-> NumberWeight, v |-> num] >> ELSE << >>)
         \o << [w |-> CharWeight(Head(s)), v |-> 0] >>
         \o CollationKey(Tail(s), FALSE, 0)

RECURSIVE CompareKeys(_, _)
CompareKeys(ka, kb) ==
    IF ka = << >> /\ kb = << >> THEN 0
    ELSE IF ka = << >> THEN -1
    ELSE IF kb = << >> THEN 1
    ELSE IF ka[1].w < kb[1].w THEN -1
    ELSE IF ka[1].w > kb[1].w THEN 1
    ELSE IF ka[1].v < kb[1].v THEN -1
    ELSE IF ka[1].v > kb[1].v THEN 1
    ELSE CompareKeys(Tail(ka), Tail(kb))

\* localeCompare without the numeric option: every digit is a character of its own.
localeCompare_NotNumeric(a, b) ==
    LET Key(s) == [i \in 1..Len(s) |->
                      IF IsDigit(s[i]) THEN [w |-> NumberWeight, v |-> DigitVal(s[i])]
                      ELSE [w |-> CharWeight(s[i]), v |-> 0]]
    IN  CompareKeys(Key(a), Key(b))

localeCompare(a, b) == CompareKeys(CollationKey(a, FALSE, 0), CollationKey(b, FALSE, 0))

\* Array.prototype.sort(cmp) is stable: inserting each element after the last
\* element that does not compare greater gives the same array.  Here with
\* cmp = (a, b) => a.localeCompare(b, undefined, {numeric, base}).
RECURSIVE InsertPath(_, _)
InsertPath(sorted, x) ==
    IF sorted = << >> THEN << x >>
    ELSE IF localeCompare(sorted[Len(sorted)], x) <= 0 THEN Append(sorted, x)
    ELSE Append(InsertPath(SubSeq(sorted, 1, Len(sorted) - 1), x), sorted[Len(sorted)])

RECURSIVE SortPaths(_)
SortPaths(xs) ==
    IF xs = << >> THEN << >>
    ELSE InsertPath(SortPaths(SubSeq(xs, 1, Len(xs) - 1)), xs[Len(xs)])

\* ------------------------------------------------------------------
\* Configuration (config.json is injected; these are the values of the model)
\* ------------------------------------------------------------------

rootDirectory == << "r" >>

allowedTags == { << "S" >>, << "C" >>, << "M" >> }

allowedExtensions == { << ".", "j", "p", "g" >>, << ".", "p", "n", "g" >> }

StoryTag == << "S", "t", "o", "r", "y" >>

\* ------------------------------------------------------------------
\* The file system seen by the scanner
\* ------------------------------------------------------------------

\* A directory entry. statOk: fs.statSync succeeds; readable: fs.readdirSync
\* succeeds (directories); kids: the listing in readdir order.
File(name) ==
    [name |-> name, kind |-> "file", kids |-> << >>, statOk |-> TRUE, readable |-> TRUE]

Dir(name, kids) ==
    [name |-> name, kind |-> "dir", kids |-> kids, statOk |-> TRUE, readable |-> TRUE]

jpg(n) == n \o << ".", "j", "p", "g" >>

\* r/x.jpg  r/a10/{S/{2.jpg,10.jpg,C+S/b.jpg}, st/{p2.jpg,p10.jpg,sub/p1.jpg,n.txt},
\*                 e/n.txt, c.JPG, d.txt}  r/a2/{C/{B.jpg, S+x/1.jpg}}
TreeA ==
    Dir(rootDirectory, <<
        File(jpg(<< "x" >>)),
        Dir(<< "a", "1", "0" >>, <<
            Dir(<< "S" >>, <<
                File(jpg(<< "2" >>)),
                File(jpg(<< "1", "0" >>)),
                Dir(<< "C", "+", "S" >>, << File(jpg(<< "b" >>)) >>) >>),
            Dir(<< "s", "t" >>, <<
                File(jpg(<< "p", "2" >>)),
                File(jpg(<< "p", "1", "0" >>)),
                Dir(<< "s", "u", "b" >>, << File(jpg(<< "p", "1" >>)) >>),
                File(<< "n", ".", "t", "x", "t" >>) >>),
            Dir(<< "e" >>, << File(<< "n", ".", "t", "x", "t" >>) >>),
            File(<< "c", ".", "J", "P", "G" >>),
            File(<< "d", ".", "t", "x", "t" >>) >>),
        Dir(<< "a", "2" >>, <<
            Dir(<< "C" >>, <<
                File(jpg(<< "B" >>)),
                Dir(<< "S", "+", "x" >>, << File(jpg(<< "1" >>)) >>) >>) >>) >>)

\* r/A_b/{a_1.png, M/{ab.jpg, S /q.jpg}, C+M/{Ab.jpg}}  r/a%/{M+S/{b2/{1.jpg}}}
TreeB ==
    Dir(rootDirectory, <<
        Dir(<< "A", "_", "b" >>, <<
            File(<< "a", "_", "1", ".", "p", "n", "g" >>),
            Dir(<< "M" >>, <<
                File(jpg(<< "a", "b" >>)),
                Dir(<< "S", " " >>, << File(jpg(<< "q" >>)) >>) >>),
            Dir(<< "C", "+", "M" >>, << File(jpg(<< "A", "b" >>)) >>) >>),
        Dir(<< "a", "%" >>, <<
            Dir(<< "M", "+", "S" >>, <<
                Dir(<< "b", "2" >>, << File(jpg(<< "1" >>)) >>) >>) >>) >>)

Unreadable(node) == [node EXCEPT !.readable = FALSE]

NoStat(node) == [node EXCEPT !.statOk = FALSE]

\* r/k/{t1/{1.jpg, bad (cannot be inspected), 2.jpg}, M/3.jpg,
\*      u/4.jpg (u cannot be listed), C/5.jpg (C cannot be listed), w/6.jpg, z.jpg}
\* with an entry n.jpg in M that cannot be inspected.
TreeC ==
    Dir(rootDirectory, <<
        Dir(<< "k" >>, <<
            Dir(<< "t", "1" >>, <<
                File(jpg(<< "1" >>)),
                NoStat(File(jpg(<< "b", "a", "d" >>))),
                File(jpg(<< "2" >>)) >>),
            Dir(<< "M" >>, << NoStat(File(jpg(<< "n" >>))), File(jpg(<< "3" >>)) >>),
            Unreadable(Dir(<< "u" >>, << File(jpg(<< "4" >>)) >>)),
            Unreadable(Dir(<< "C" >>, << File(jpg(<< "5" >>)) >>)),
            Dir(<< "w" >>, << File(jpg(<< "6" >>)) >>),
            File(jpg(<< "z" >>)) >>) >>)

Trees == { TreeA, TreeB, TreeC }

\* ------------------------------------------------------------------
\* The catalog: tables assets and asset_tags
\* ------------------------------------------------------------------

\* A database value: assets is the set of rows of table assets, asset_tags the
\* rows of table asset_tags in insertion order, seq the largest id ever given
\* out (AUTOINCREMENT), last the lastInsertRowid of the latest insert, threw
\* whether an exception is propagating out of the scan, left the number of
\* writes the repository accepts before it rejects one (negative: it rejects
\* none), rejected whether it has rejected one.
EmptyDb ==
    [assets |-> {}, asset_tags |-> << >>, seq |-> 0, last |-> 0, threw |-> FALSE,
     left |-> 0 - 1, rejected |-> FALSE]

\* A statement's run(): nothing is executed once an exception propagates; a
\* write the repository rejects throws and changes nothing.
Run(db, written) ==
    IF db.threw THEN db
    ELSE IF db.left = 0 THEN [db EXCEPT !.threw = TRUE, !.rejected = TRUE]
    ELSE [written EXCEPT !.left = IF @ > 0 THEN @ - 1 ELSE @]

\* insertAsset with the foreign keys off: the replaced row's asset_tags rows
\* stay.
insertAsset_NoCascade(db, path, type, artistName, name, pages) ==
    LET id  == db.seq + 1
        row == [id |-> id, path |-> path, type |-> type, artist |-> artistName,
                name |-> name, pages |-> pages]
    IN  [db EXCEPT !.assets = {a \in db.assets : a.path # path} \cup {row},
                   !.seq = id,
                   !.last = id]

\* insertAsset as a plain INSERT: a row with the same path stays.
insertAsset_KeepsOldRow(db, path, type, artistName, name, pages) ==
    LET id  == db.seq + 1
        row == [id |-> id, path |-> path, type |-> type, artist |-> artistName,
                name |-> name, pages |-> pages]
    IN  [db EXCEPT !.assets = db.assets \cup {row},
                   !.seq = id,
                   !.last = id]

\* insertAsset.run: INSERT OR REPLACE INTO assets (path, ...).  path is UNIQUE:
\* a row with the same path is deleted first, and with foreign_keys = ON its
\* asset_tags rows go with it (ON DELETE CASCADE); the new row gets a fresh id.
insertAsset(db, path, type, artistName, name, pages) ==
    LET old == {a.id : a \in {x \in db.assets : x.path = path}}
        id  == db.seq + 1
        row == [id |-> id, path |-> path, type |-> type, artist |-> artistName,
                name |-> name, pages |-> pages]
    IN  Run(db, [db EXCEPT !.assets = {a \in db.assets : a.path # path} \cup {row},
                           !.asset_tags = SelectSeq(db.asset_tags,
                                                    LAMBDA r : r.asset_id \notin old),
                           !.seq = id,
                           !.last = id])

\* insertTag.run: INSERT INTO asset_tags (asset_id, tag)
insertTag(db, asset_id, tag) ==
    Run(db, [db EXCEPT !.asset_tags =
                            Append(db.asset_tags, [asset_id |-> asset_id, tag |-> tag])])

\* tags.forEach(tag => insertTag.run(id, tag))
RECURSIVE insertTags(_, _, _)
insertTags(db, asset_id, tags) ==
    IF tags = << >> THEN db
    ELSE insertTags(insertTag(db, asset_id, Head(tags)), asset_id, Tail(tags))

\* The set of tags stored for an asset id.
TagsOf(tagRows, id) == {tagRows[i].tag : i \in {j \in 1..Len(tagRows) : tagRows[j].asset_id = id}}

\* ------------------------------------------------------------------
\* Scanner
\* ------------------------------------------------------------------

allowedFile(name) == Member(toLowerCase(extname(name)), allowedExtensions)

\* getFilesRecursively: the allowed files below dir, at any depth.  A failing
\* readdirSync or statSync ends the forEach in the catch block and keeps what
\* was gathered before; the result is sorted in natural order.
RECURSIVE getFilesRecursively(_, _)
RECURSIVE GatherFrom(_, _, _, _)
GatherFrom(list, i, dir, results) ==
    IF i > Len(list) THEN results
    ELSE LET file     == list[i]
             filePath == PathJoin(dir, file.name)
         IN  IF ~file.statOk THEN results
             ELSE IF file.kind = "dir"
             THEN GatherFrom(list, i + 1, dir, results \o getFilesRecursively(file, filePath))
             ELSE IF allowedFile(file.name)
             THEN GatherFrom(list, i + 1, dir, Append(results, filePath))
             ELSE GatherFrom(list, i + 1, dir, results)

getFilesRecursively(node, dir) ==
    SortPaths(IF node.readable THEN GatherFrom(node.kids, 1, dir, << >>) ELSE << >>)

\* item.split('+').map(t => t.trim())
folderTagsOf(item) == MapTrim(split(item, "+"))

allTagsValid(folderTags) == \A i \in 1..Len(folderTags) : Member(folderTags[i], allowedTags)

\* The accumulated tags carried one level deeper without the tags above.
deeperTags_OnlyFolder(currentTags, folderTags) == folderTags

\* [...currentTags, ...folderTags]
deeperTags(currentTags, folderTags) == currentTags \o folderTags

\* The Story branch of scanDirectory: one asset for the directory if it has
\* pages, tagged "Story" and the de-duplicated accumulated tags.
indexStory(db, node, fullPath, artistName, currentTags) ==
    LET storyPages == getFilesRecursively(node, fullPath)
    IN  IF Len(storyPages) > 0
        THEN LET d1 == insertAsset(db, fullPath, "story", artistName, node.name, storyPages)
                 d2 == insertTag(d1, d1.last, StoryTag)
             IN  insertTags(d2, d1.last, Unique(currentTags))
        ELSE db

\* indexImage with the file name and the artist name in each other's place.
indexImage_ArtistAndNameSwapped(db, node, fullPath, artistName, currentTags) ==
    IF allowedFile(node.name)
    THEN LET d1 == insertAsset(db, fullPath, "image", node.name, artistName, << >>)
         IN  insertTags(d1, d1.last, Unique(currentTags))
    ELSE db

\* The file branch of scanDirectory: a standalone image (pages is NULL, here
\* the empty sequence).
indexImage(db, node, fullPath, artistName, currentTags) ==
    IF allowedFile(node.name)
    THEN LET d1 == insertAsset(db, fullPath, "image", artistName, node.name, << >>)
         IN  insertTags(d1, d1.last, Unique(currentTags))
    ELSE db

\* scanDirectory(dirPath, artistName, currentTags) below the root, where
\* artistName is set: the call runs to its end without leaving the event loop
\* turn.  readdirSync is outside any try: an unreadable directory throws.
RECURSIVE scanDirectory(_, _, _, _, _)
RECURSIVE scanItems(_, _, _, _, _, _)
scanItems(items, i, dirPath, artistName, currentTags, db) ==
    IF i > Len(items) \/ db.threw THEN db
    ELSE LET item     == items[i]
             fullPath == PathJoin(dirPath, item.name)
             next     ==
                IF ~item.statOk THEN db
                ELSE IF item.kind = "dir"
                THEN LET folderTags == folderTagsOf(item.name)
                     IN  IF allTagsValid(folderTags) /\ Len(folderTags) > 0
                         THEN scanDirectory(item, fullPath, artistName,
                                            deeperTags(currentTags, folderTags), db)
                         ELSE indexStory(db, item, fullPath, artistName, currentTags)
                ELSE indexImage(db, item, fullPath, artistName, currentTags)
         IN  scanItems(items, i + 1, dirPath, artistName, currentTags, next)

scanDirectory(node, dirPath, artistName, currentTags, db) ==
    IF ~node.readable THEN [db EXCEPT !.threw = TRUE]
    ELSE scanItems(node.kids, 1, dirPath, artistName, currentTags, db)

\* countArtists: the directories directly under the root.
countArtists(root) ==
    IF ~root.readable THEN 0
    ELSE Cardinality({i \in 1..Len(root.kids) :
                         root.kids[i].statOk /\ root.kids[i].kind = "dir"})

\* The root-level loop of scanDirectory from entry i on: the index of the next
\* artist directory, or 0 when the loop runs to its end (files in the root and
\* entries that cannot be inspected are passed over).
NextArtist(items, i) ==
    LET ds == {j \in i..Len(items) : items[j].statOk /\ items[j].kind = "dir"}
    IN  IF ds = {} THEN 0 ELSE CHOOSE j \in ds : \A k \in ds : j <= k

\* ------------------------------------------------------------------
\* Query parser
\* ------------------------------------------------------------------

EmptyPredicate == [and |-> << >>, or |-> << >>, not |-> << >>]

\* ParseParts with the "|" test made before the "-" test.
RECURSIVE ParseParts_OrBeforeNot(_, _)
ParseParts_OrBeforeNot(parts, result) ==
    IF parts = << >> THEN result
    ELSE LET part == Head(parts)
             next ==
                IF includes(part, "|")
                THEN [result EXCEPT !.or = @ \o FilterNonEmpty(MapTrim(split(part, "|")))]
                ELSE IF startsWith(part, "-")
                THEN [result EXCEPT !.not = Append(@, trim(Tail(part)))]
                ELSE [result EXCEPT !.and = Append(@, part)]
         IN  ParseParts_OrBeforeNot(Tail(parts), next)

\* The for loop of parseTagQuery over the trimmed, non-empty parts.
RECURSIVE ParseParts(_, _)
ParseParts(parts, result) ==
    IF parts = << >> THEN result
    ELSE LET part == Head(parts)
             next ==
                IF startsWith(part, "-")
                THEN [result EXCEPT !.not = Append(@, trim(Tail(part)))]
                ELSE IF includes(part, "|")
                THEN [result EXCEPT !.or = @ \o FilterNonEmpty(MapTrim(split(part, "|")))]
                ELSE [result EXCEPT !.and = Append(@, part)]
         IN  ParseParts(Tail(parts), next)

parseTagQuery(queryString) ==
    IF queryString = << >> THEN EmptyPredicate
    ELSE ParseParts(FilterNonEmpty(MapTrim(split(queryString, ","))), EmptyPredicate)

\* ------------------------------------------------------------------
\* Search: assembling the SQL text and its parameter list
\* ------------------------------------------------------------------

IntParam(n) == [t |-> "int", v |-> << >>, n |-> n]

TextParams(vs) == [i \in 1..Len(vs) |-> [t |-> "text", v |-> vs[i], n |-> 0]]

\* A WHERE clause or the HAVING clause of the assembled statement with the
\* number of "?" it contains.
TagIn(n) == [kind |-> "tagIn", slots |-> n, nAnd |-> 0]

NotIn(n) == [kind |-> "notIn", slots |-> n, nAnd |-> 0]

LikeClause == [kind |-> "like", slots |-> 2, nAnd |-> 0]

NoHaving == [kind |-> "none", slots |-> 0, nAnd |-> 0]

GroupOnly == [kind |-> "group", slots |-> 0, nAnd |-> 0]

HavingCount == [kind |-> "countGe", slots |-> 1, nAnd |-> 0]

HavingSums(nAnd, nOr) == [kind |-> "sumCase", slots |-> nAnd + 1 + nOr, nAnd |-> nAnd]

\* `%${text}%`
likeQuery(text) == << "%" >> \o text \o << "%" >>

\* TagClauses with the JOIN added for NOT tags as well.
TagClauses_JoinForNot(pq) ==
    LET nAnd == Len(pq.and)
        nOr  == Len(pq.or)
        nNot == Len(pq.not)
        andW == IF nAnd > 0 THEN << TagIn(nAnd) >> ELSE << >>
        orW  == IF nOr = 0 THEN << >>
                ELSE IF nAnd = 0 THEN << TagIn(nOr) >>
                ELSE << TagIn(nAnd + nOr) >>
        notW == IF nNot > 0 THEN << NotIn(nNot) >> ELSE << >>
    IN  [join   |-> nAnd > 0 \/ nOr > 0 \/ nNot > 0,
         where  |-> andW \o orW \o notW,
         having |-> IF nAnd > 0 /\ nOr > 0 THEN HavingSums(nAnd, nOr)
                    ELSE IF nAnd > 0 THEN HavingCount
                    ELSE IF nOr > 0 THEN GroupOnly
                    ELSE NoHaving,
         params |-> TextParams(pq.and) \o TextParams(pq.or) \o TextParams(pq.not)]

\* Step 1 of the handler: the tag clauses (q is truthy).
TagClauses(pq) ==
    LET nAnd == Len(pq.and)
        nOr  == Len(pq.or)
        nNot == Len(pq.not)
        andW == IF nAnd > 0 THEN << TagIn(nAnd) >> ELSE << >>
        orW  == IF nOr = 0 THEN << >>
                ELSE IF nAnd = 0 THEN << TagIn(nOr) >>
                ELSE << TagIn(nAnd + nOr) >>
        notW == IF nNot > 0 THEN << NotIn(nNot) >> ELSE << >>
    IN  [join   |-> nAnd > 0 \/ nOr > 0,
         where  |-> andW \o orW \o notW,
         having |-> IF nAnd > 0 /\ nOr > 0 THEN HavingSums(nAnd, nOr)
                    ELSE IF nAnd > 0 THEN HavingCount
                    ELSE IF nOr > 0 THEN GroupOnly
                    ELSE NoHaving,
         params |-> TextParams(pq.and) \o TextParams(pq.or) \o TextParams(pq.not)]

\* Step 4 of the handler: the parameters pushed for the HAVING clause.
HavingParams(pq) ==
    IF Len(pq.and) > 0 /\ Len(pq.or) > 0
    THEN TextParams(pq.and) \o << IntParam(Len(pq.and)) >> \o TextParams(pq.or)
    ELSE IF Len(pq.and) > 0 THEN << IntParam(Len(pq.and)) >>
    ELSE << >>

\* The statement and the parameter list the handler hands to the database.
BuildSearch(q, text) ==
    LET pq   == parseTagQuery(q)
        tagp == IF q # << >> THEN TagClauses(pq)
                ELSE [join |-> FALSE, where |-> << >>, having |-> NoHaving, params |-> << >>]
        txtW == IF text # << >> THEN << LikeClause >> ELSE << >>
        txtP == IF text # << >>
                THEN TextParams(<< likeQuery(text), likeQuery(text) >>) ELSE << >>
        havP == IF tagp.having.kind # "none" /\ q # << >> THEN HavingParams(pq) ELSE << >>
    IN  [join   |-> tagp.join,
         where  |-> tagp.where \o txtW,
         having |-> tagp.having,
         params |-> tagp.params \o txtP \o havP]

\* ------------------------------------------------------------------
\* Search: what the database does with the statement
\* ------------------------------------------------------------------

RECURSIVE SlotSum(_)
SlotSum(clauses) == IF clauses = << >> THEN 0 ELSE Head(clauses).slots + SlotSum(Tail(clauses))

\* All clauses in the order of their "?" in the SQL text: WHERE, then HAVING.
ClausesOf(stmt) == stmt.where \o << stmt.having >>

\* Positional binding: the values bound to the "?" of the k-th clause.
BoundTo(stmt, k) ==
    LET off == SlotSum(SubSeq(ClausesOf(stmt), 1, k - 1))
    IN  SubSeq(stmt.params, off + 1, off + ClausesOf(stmt)[k].slots)

\* The text values among bound parameters (a number never equals a tag).
TextValues(vals) == {vals[i].v : i \in {j \in 1..Len(vals) : vals[j].t = "text"}}

\* SQLite LIKE: "%" is any run of characters, "_" any one character, letters
\* match without regard to case.
RECURSIVE LikeMatch(_, _)
LikeMatch(pat, str) ==
    IF pat = << >> THEN str = << >>
    ELSE IF Head(pat) = "%"
    THEN LikeMatch(Tail(pat), str) \/ (str # << >> /\ LikeMatch(pat, Tail(str)))
    ELSE IF Head(pat) = "_"
    THEN str # << >> /\ LikeMatch(Tail(pat), Tail(str))
    ELSE /\ str # << >>
         /\ LowerChar(Head(pat)) = LowerChar(Head(str))
         /\ LikeMatch(Tail(pat), Tail(str))

\* WhereHolds with "at.tag IN (...)" comparing with the first value only.
WhereHolds_FirstTagOnly(clause, vals, a, at, tagRows) ==
    CASE clause.kind = "tagIn" -> vals[1].t = "text" /\ at.tag = vals[1].v
      [] clause.kind = "notIn" ->
            ~ \E j \in 1..Len(tagRows) :
                  tagRows[j].asset_id = a.id /\ tagRows[j].tag \in TextValues(vals)
      [] clause.kind = "like" ->
            /\ vals[1].t = "text" /\ vals[2].t = "text"
            /\ LikeMatch(vals[1].v, a.artist) \/ LikeMatch(vals[2].v, a.name)

\* One WHERE clause on one row of assets a [JOIN asset_tags at].
WhereHolds(clause, vals, a, at, tagRows) ==
    CASE clause.kind = "tagIn" -> at.tag \in TextValues(vals)
      [] clause.kind = "notIn" ->
            ~ \E j \in 1..Len(tagRows) :
                  tagRows[j].asset_id = a.id /\ tagRows[j].tag \in TextValues(vals)
      [] clause.kind = "like" ->
            /\ vals[1].t = "text" /\ vals[2].t = "text"
            /\ LikeMatch(vals[1].v, a.artist) \/ LikeMatch(vals[2].v, a.name)

\* HavingHolds with the count test of the AND tags weakened to "at least one".
HavingHolds_AnyAndTag(having, vals, J, tagRows) ==
    CASE having.kind = "none" -> TRUE
      [] having.kind = "group" -> TRUE
      [] having.kind = "countGe" ->
            vals[1].t = "int" /\ Cardinality({tagRows[j].tag : j \in J}) >= 1
      [] having.kind = "sumCase" -> TRUE

\* The HAVING clause on the group of joined rows J of one asset.
HavingHolds(having, vals, J, tagRows) ==
    CASE having.kind = "none" -> TRUE
      [] having.kind = "group" -> TRUE
      [] having.kind = "countGe" ->
            vals[1].t = "int" /\ Cardinality({tagRows[j].tag : j \in J}) >= vals[1].n
      [] having.kind = "sumCase" ->
            LET andVals == TextValues(SubSeq(vals, 1, having.nAnd))
                cnt     == vals[having.nAnd + 1]
                orVals  == TextValues(SubSeq(vals, having.nAnd + 2, Len(vals)))
            IN  /\ cnt.t = "int"
                /\ Cardinality({j \in J : tagRows[j].tag \in andVals}) = cnt.n
                /\ Cardinality({j \in J : tagRows[j].tag \in orVals}) >= 1

\* The rows of assets a JOIN asset_tags at of asset a that pass the WHERE
\* clauses, as indices of tag rows.
JoinedRowsOf(stmt, a, tagRows) ==
    {j \in 1..Len(tagRows) :
        /\ tagRows[j].asset_id = a.id
        /\ \A k \in 1..Len(stmt.where) :
              WhereHolds(stmt.where[k], BoundTo(stmt, k), a, tagRows[j], tagRows)}

\* The assets selected by the statement (SELECT DISTINCT a.* ... GROUP BY a.id).
SelectAssets(stmt, assetRows, tagRows) ==
    LET nW == Len(stmt.where)
        RowOk(a, at) ==
            \A k \in 1..nW : WhereHolds(stmt.where[k], BoundTo(stmt, k), a, at, tagRows)
        NoTag == [asset_id |-> 0, tag |-> << >>]
    IN  IF stmt.join
        THEN {a \in assetRows :
                LET J == JoinedRowsOf(stmt, a, tagRows)
                IN  J # {} /\ HavingHolds(stmt.having, BoundTo(stmt, nW + 1), J, tagRows)}
        ELSE {a \in assetRows : RowOk(a, NoTag)}

\* db.prepare(sql).all(...params) throws a RangeError unless there is exactly
\* one value per "?".
BindFails(stmt) == Len(stmt.params) # SlotSum(ClausesOf(stmt))

\* Rows come back in id order (the scan order of assets, and of GROUP BY a.id).
RECURSIVE RowsById(_)
RowsById(rows) ==
    IF rows = {} THEN << >>
    ELSE LET first == CHOOSE a \in rows : \A b \in rows : a.id <= b.id
         IN  << first >> \o RowsById(rows \ {first})

\* (SELECT GROUP_CONCAT(tag) ...) then r.tags ? r.tags.split(',') : []
tagsColumn(tagRows, id) ==
    LET mine == SelectSeq(tagRows, LAMBDA r : r.asset_id = id)
        csv  == join([i \in 1..Len(mine) |-> mine[i].tag], ",")
    IN  IF csv = << >> THEN << >> ELSE split(csv, ",")

\* n copies of row a.
Copies(a, n) == [i \in 1..n |-> a]

RECURSIVE Concat(_)
Concat(seqs) == IF seqs = << >> THEN << >> ELSE Head(seqs) \o Concat(Tail(seqs))

\* resultRows without GROUP BY and without DISTINCT: one row per joined row.
resultRows_PerJoinedRow(stmt, assetRows, tagRows) ==
    LET selected == RowsById(SelectAssets(stmt, assetRows, tagRows))
        RowsOf(a) ==
            IF stmt.join
            THEN Copies(a, Cardinality(JoinedRowsOf(stmt, a, tagRows)))
            ELSE << a >>
    IN  Concat([i \in 1..Len(selected) |-> RowsOf(selected[i])])

\* The rows the statement returns: a selected asset comes once per joined
\* row, GROUP BY a.id makes that one row per asset, and SELECT DISTINCT drops
\* rows equal in a.* and the tags column.
resultRows(stmt, assetRows, tagRows) ==
    LET selected == RowsById(SelectAssets(stmt, assetRows, tagRows))
        RowsOf(a) ==
            IF stmt.join /\ stmt.having.kind = "none"
            THEN Copies(a, Cardinality(JoinedRowsOf(stmt, a, tagRows)))
            ELSE << a >>
    IN  Unique(Concat([i \in 1..Len(selected) |-> RowsOf(selected[i])]))

parsedItem(r, tagRows) ==
    [id |-> r.id, path |-> r.path, type |-> r.type, artist |-> r.artist,
     name |-> r.name, pages |-> r.pages, tags |-> tagsColumn(tagRows, r.id)]

\* The comparator of parsedItems.sort: artist first, then name.
compareItems(a, b) ==
    LET artistCompare == localeCompare(a.artist, b.artist)
    IN  IF artistCompare # 0 THEN artistCompare ELSE localeCompare(a.name, b.name)

RECURSIVE InsertItem(_, _)
InsertItem(sorted, x) ==
    IF sorted = << >> THEN << x >>
    ELSE IF compareItems(sorted[Len(sorted)], x) <= 0 THEN Append(sorted, x)
    ELSE Append(InsertItem(SubSeq(sorted, 1, Len(sorted) - 1), x), sorted[Len(sorted)])

RECURSIVE sortItems(_)
sortItems(xs) ==
    IF xs = << >> THEN << >>
    ELSE InsertItem(sortItems(SubSeq(xs, 1, Len(xs) - 1)), xs[Len(xs)])

\* ------------------------------------------------------------------
\* Search: pagination
\* ------------------------------------------------------------------

NaN == [nan |-> TRUE, n |-> 0]

RECURSIVE DigitsValue(_, _)
DigitsValue(s, acc) ==
    IF s = << >> \/ ~IsDigit(Head(s)) THEN acc
    ELSE DigitsValue(Tail(s), acc * 10 + DigitVal(Head(s)))

\* parseInt: leading blanks, an optional sign, then the leading digits; NaN
\* when there is no digit (also for a missing parameter).
parseInt(str) ==
    LET s0  == TrimStart(str)
        neg == startsWith(s0, "-")
        s1  == IF startsWith(s0, "-") \/ startsWith(s0, "+") THEN Tail(s0) ELSE s0
    IN  IF s1 = << >> \/ ~IsDigit(Head(s1)) THEN NaN
        ELSE [nan |-> FALSE,
              n   |-> IF neg THEN 0 - DigitsValue(s1, 0) ELSE DigitsValue(s1, 0)]

\* x || d on a number: NaN and 0 are falsy.
OrDefault(x, d) == IF x.nan \/ x.n = 0 THEN d ELSE x.n

DefaultPage == 1

DefaultLimit == 12

\* Array.prototype.slice(start, end); positions are 0-based, negative ones
\* count from the end.
slice(xs, start, end) ==
    LET len  == Len(xs)
        Rel(k) == IF k < 0 THEN (IF len + k < 0 THEN 0 ELSE len + k)
                  ELSE (IF k > len THEN len ELSE k)
        from == Rel(start)
        to   == Rel(end)
    IN  IF to > from THEN SubSeq(xs, from + 1, to) ELSE << >>

\* Math.ceil(total / limit) for limit # 0.
ceilDiv(total, limit) ==
    IF limit > 0 THEN (total + limit - 1) \div limit
    ELSE 0 - (total \div (0 - limit))

\* ------------------------------------------------------------------
\* State
\* ------------------------------------------------------------------

VARIABLES
    fs,            \* the tree under config.rootDirectory
    assets,        \* table assets
    asset_tags,    \* table asset_tags, rows in insertion order
    seq,           \* sqlite_sequence of assets: the largest id given out
    repository,    \* how many more writes the database accepts, and whether it rejected one
    scanProgress,  \* the global progress record
    scanPc,        \* "idle", or "yield": a scan waits in setImmediate
    scanIdx,       \* index in the root listing of the artist to scan next
    scans,         \* number of scans started
    events,        \* the progress events broadcast by the latest scan, in order
    req,           \* the search request answered last
    parsedQuery,   \* the predicate parsed from its q
    res,           \* its response, until the client has taken it
    client,        \* the browser's rescan: triggerScan and its EventSource
    viewer         \* the browser's result page and fullscreen viewer

dbVars == << assets, asset_tags, seq >>

WorkingRepository == [left |-> 0 - 1, rejected |-> FALSE]

\* The page before the App is mounted: no items, the URL without page, i and
\* p (the viewer is closed), no search request under way.
NoPage ==
    [page |-> 1, open |-> FALSE, i |-> 0, p |-> 0, items |-> << >>, itemsPage |-> 0,
     totalPages |-> 1, pending |-> {}, lastMove |-> "none"]

\* No rescan yet: triggerScan is not running (step), there is no EventSource
\* (es), no event waits for its onmessage (inbox), no stream was closed on a
\* final event (closedOn), no toast is shown and no refresh was asked for.
NoRescan ==
    [step |-> "none", es |-> "none", inbox |-> << >>, closedOn |-> "none",
     toast |-> "none", refreshes |-> 0, rescans |-> 0]

scanVars == << scanProgress, scanPc, scanIdx, scans, events >>

searchVars == << req, parsedQuery, res >>

vars == << fs, assets, asset_tags, seq, repository, scanProgress, scanPc, scanIdx, scans, events,
           req, parsedQuery, res, client, viewer >>

NoRequest == [q |-> << >>, text |-> << >>, page |-> << >>, limit |-> << >>]

NoResponse ==
    [status |-> 0, items |-> << >>, total |-> 0, page |-> 0, limit |-> 0, totalPages |-> 0]

ErrorResponse ==
    [status |-> 500, items |-> << >>, total |-> 0, page |-> 0, limit |-> 0, totalPages |-> 0]

Init ==
    /\ fs \in Trees
    /\ assets = {}
    /\ asset_tags = << >>
    /\ seq = 0
    /\ repository = WorkingRepository
    /\ scanProgress = [current |-> 0, total |-> 0, status |-> "idle", currentItem |-> << >>]
    /\ scanPc = "idle"
    /\ scanIdx = 0
    /\ scans = 0
    /\ events = << >>
    /\ req = NoRequest
    /\ parsedQuery = EmptyPredicate
    /\ res = NoResponse
    /\ client = NoRescan
    /\ viewer = NoPage

\* ------------------------------------------------------------------
\* The requests of a rescan, as the server answers them
\* ------------------------------------------------------------------

\* res.json of POST /api/reset reaches the triggerScan that awaits it.
ResetAnswered(c) == IF c.step = "resetPosted" THEN [c EXCEPT !.step = "resetDone"] ELSE c

\* A step of POST /api/scan seen from the browser: the request is taken up,
\* broadcastProgress writes the new events to the registered stream, and when
\* the handler ends its response reaches the triggerScan that awaits it.
AfterScanStep(c, started) ==
    LET new == IF started THEN events' ELSE << events'[Len(events')] >>
        c1  == IF started /\ c.step = "scanPosted"
               THEN [c EXCEPT !.step = "scanRunning"] ELSE c
        c2  == IF c1.es = "open" THEN [c1 EXCEPT !.inbox = @ \o new] ELSE c1
    IN  IF scanPc' = "idle" /\ c2.step = "scanRunning"
        THEN [c2 EXCEPT !.step = "none"] ELSE c2

\* ------------------------------------------------------------------
\* POST /api/reset
\* ------------------------------------------------------------------

\* The two DELETE statements of the handler, in its try block.
Reset ==
    /\ res = NoResponse
    /\ LET db0 == [assets |-> assets, asset_tags |-> asset_tags, seq |-> seq,
                   last |-> 0, threw |-> FALSE,
                   left |-> repository.left, rejected |-> repository.rejected]
           db1 == Run(db0, [db0 EXCEPT !.asset_tags = << >>])
           db2 == Run(db1, [db1 EXCEPT !.assets = {}])
       IN  /\ asset_tags' = db2.asset_tags
           /\ assets' = db2.assets
           /\ repository' = [left |-> db2.left, rejected |-> db2.rejected]
    /\ client' = ResetAnswered(client)
    /\ UNCHANGED << fs, seq, scanVars, searchVars, viewer >>

\* ------------------------------------------------------------------
\* POST /api/scan
\* ------------------------------------------------------------------

\* RootLoop with the artist announced without advancing current.
RootLoop_CurrentNotAdvanced(progress, i, sent) ==
    LET j == NextArtist(fs.kids, i)
        completed == [progress EXCEPT !.status = "complete"]
        advanced  == [progress EXCEPT !.currentItem = fs.kids[j].name]
    IN  IF j = 0
        THEN /\ scanProgress' = completed
             /\ events' = Append(sent, completed)
             /\ scanPc' = "idle"
             /\ scanIdx' = 0
        ELSE /\ scanProgress' = advanced
             /\ events' = Append(sent, advanced)
             /\ scanPc' = "yield"
             /\ scanIdx' = j

\* The root-level loop from entry i on, up to the next setImmediate or to the
\* end of the scan: progress is advanced for the next artist directory, or the
\* scan completes.
RootLoop(progress, i, sent) ==
    LET j == NextArtist(fs.kids, i)
        completed == [progress EXCEPT !.status = "complete"]
        advanced  == [progress EXCEPT !.current = @ + 1,
                                      !.total = IF progress.current + 1 > @
                                                THEN progress.current + 1 ELSE @,
                                      !.currentItem = fs.kids[j].name]
    IN  IF j = 0
        THEN /\ scanProgress' = completed
             /\ events' = Append(sent, completed)
             /\ scanPc' = "idle"
             /\ scanIdx' = 0
        ELSE /\ scanProgress' = advanced
             /\ events' = Append(sent, advanced)
             /\ scanPc' = "yield"
             /\ scanIdx' = j

\* ScanStart emptying both tables before the walk.
ScanStart_ClearsTheCatalog ==
    /\ res = NoResponse
    /\ scanPc = "idle"
    /\ scans < MaxScans
    /\ scans' = scans + 1
    /\ LET started == [current |-> 0, total |-> countArtists(fs),
                       status |-> "scanning", currentItem |-> << >>]
       IN  IF ~fs.readable
           THEN /\ scanProgress' = [started EXCEPT !.status = "error"]
                /\ events' = << started, [started EXCEPT !.status = "error"] >>
                /\ scanPc' = "idle"
                /\ scanIdx' = 0
           ELSE RootLoop(started, 1, << started >>)
    /\ client' = AfterScanStep(client, TRUE)
    /\ assets' = {}
    /\ asset_tags' = << >>
    /\ UNCHANGED << fs, seq, repository, searchVars, viewer >>

\* The handler up to its first setImmediate.
ScanStart ==
    /\ res = NoResponse
    /\ scanPc = "idle"
    /\ scans < MaxScans
    /\ scans' = scans + 1
    /\ LET started == [current |-> 0, total |-> countArtists(fs),
                       status |-> "scanning", currentItem |-> << >>]
       IN  IF ~fs.readable
           THEN /\ scanProgress' = [started EXCEPT !.status = "error"]
                /\ events' = << started, [started EXCEPT !.status = "error"] >>
                /\ scanPc' = "idle"
                /\ scanIdx' = 0
           ELSE RootLoop(started, 1, << started >>)
    /\ client' = AfterScanStep(client, TRUE)
    /\ UNCHANGED << fs, dbVars, repository, searchVars, viewer >>

\* ScanResume giving way to other requests after the first entry of the artist
\* directory, the rest of the subtree not yet indexed.
ScanResume_YieldsAfterFirstEntry ==
    /\ res = NoResponse
    /\ scanPc = "yield"
    /\ LET artist == fs.kids[scanIdx]
           db0    == [assets |-> assets, asset_tags |-> asset_tags, seq |-> seq,
                      last |-> 0, threw |-> FALSE,
                      left |-> repository.left, rejected |-> repository.rejected]
           db1    == scanDirectory([artist EXCEPT !.kids = SubSeq(@, 1, 1)], PathJoin(rootDirectory, artist.name),
                                   artist.name, << >>, db0)
       IN  /\ assets' = db1.assets
           /\ asset_tags' = db1.asset_tags
           /\ seq' = db1.seq
           /\ repository' = [left |-> db1.left, rejected |-> db1.rejected]
           /\ IF db1.threw
              THEN /\ scanProgress' = [scanProgress EXCEPT !.status = "error"]
                   /\ events' = Append(events, [scanProgress EXCEPT !.status = "error"])
                   /\ scanPc' = "idle"
                   /\ scanIdx' = 0
              ELSE RootLoop(scanProgress, scanIdx + 1, events)
    /\ client' = AfterScanStep(client, FALSE)
    /\ UNCHANGED << fs, scans, searchVars, viewer >>

\* After setImmediate: the artist's subtree is scanned in one turn, then the
\* root-level loop goes on to the next artist directory or to the end.
ScanResume ==
    /\ res = NoResponse
    /\ scanPc = "yield"
    /\ LET artist == fs.kids[scanIdx]
           db0    == [assets |-> assets, asset_tags |-> asset_tags, seq |-> seq,
                      last |-> 0, threw |-> FALSE,
                      left |-> repository.left, rejected |-> repository.rejected]
           db1    == scanDirectory(artist, PathJoin(rootDirectory, artist.name),
                                   artist.name, << >>, db0)
       IN  /\ assets' = db1.assets
           /\ asset_tags' = db1.asset_tags
           /\ seq' = db1.seq
           /\ repository' = [left |-> db1.left, rejected |-> db1.rejected]
           /\ IF db1.threw
              THEN /\ scanProgress' = [scanProgress EXCEPT !.status = "error"]
                   /\ events' = Append(events, [scanProgress EXCEPT !.status = "error"])
                   /\ scanPc' = "idle"
                   /\ scanIdx' = 0
              ELSE RootLoop(scanProgress, scanIdx + 1, events)
    /\ client' = AfterScanStep(client, FALSE)
    /\ UNCHANGED << fs, scans, searchVars, viewer >>

\* ------------------------------------------------------------------
\* GET /api/search
\* ------------------------------------------------------------------

\* Steps 1 to 3 of the try block: all rows of the statement, parsed and sorted.
sortedItems(stmt, assetRows, tagRows) ==
    LET rows == resultRows(stmt, assetRows, tagRows)
    IN  sortItems([i \in 1..Len(rows) |-> parsedItem(rows[i], tagRows)])

pageOffset(page, limit) == (page - 1) * limit

\* The response of the handler to the query parameters q, text, page, limit.
searchResponse(q, text, pageParam, limitParam, assetRows, tagRows) ==
    LET stmt   == BuildSearch(q, text)
        page   == OrDefault(parseInt(pageParam), DefaultPage)
        limit  == OrDefault(parseInt(limitParam), DefaultLimit)
        offset == pageOffset(page, limit)
    IN  IF BindFails(stmt) THEN ErrorResponse
        ELSE LET parsedItems == sortedItems(stmt, assetRows, tagRows)
                 total == Len(parsedItems)
             IN  [status     |-> 200,
                  items      |-> slice(parsedItems, offset, offset + limit),
                  total      |-> total,
                  page       |-> page,
                  limit      |-> limit,
                  totalPages |-> ceilDiv(total, limit)]

\* The clauses tag queries are built from.
QueryClauses ==
    { << "S" >>, << "C" >>, << "M" >>, << "S", "|", "C" >>, << "M", "|", "X" >>,
      << "-", "S" >>, << "-", " ", "M" >>, << " " >> }

RECURSIVE ClauseLists(_)
ClauseLists(n) ==
    IF n = 0 THEN { << >> }
    ELSE LET shorter == ClauseLists(n - 1)
         IN  shorter \cup {Append(cs, c) : cs \in {x \in shorter : Len(x) = n - 1},
                                           c \in QueryClauses}

\* Tag queries: up to MaxClauses clauses joined by commas.
TagQueries == {join(cs, ",") : cs \in ClauseLists(MaxClauses)}

\* Text filters: letters in both cases, a digit and the two LIKE wildcards.
TextFilters ==
    { << >>, << "a" >>, << "B" >>, << "1" >>, << "_" >>, << "%" >>, << "a", "b" >>,
      << "a", "_" >>, << "_", "1" >>, << "b", "%" >>, << "A", "1", "0" >> }

PageParams == { << >>, << "1" >>, << "2" >>, << "3" >>, << "0" >>, << "-", "1" >>, << "x" >> }

LimitParams == { << >>, << "1" >>, << "2" >>, << "3" >>, << "0" >>, << "-", "2" >> }

\* The requests of the model: every tag query with and without a text filter,
\* every text filter with and without a tag, every page and page size.
Requests ==
    {[q |-> q, text |-> t, page |-> << >>, limit |-> << >>] :
        q \in TagQueries, t \in {<< >>, << "a" >>}}
    \cup {[q |-> q, text |-> t, page |-> << >>, limit |-> << >>] :
        q \in {<< >>, << "M" >>}, t \in TextFilters}
    \cup {[q |-> q, text |-> << >>, page |-> pg, limit |-> lm] :
        q \in {<< >>, << "S" >>}, pg \in PageParams, lm \in LimitParams}

Search ==
    /\ res = NoResponse
    /\ \E r \in Requests :
        /\ req' = r
        /\ parsedQuery' = parseTagQuery(r.q)
        /\ res' = searchResponse(r.q, r.text, r.page, r.limit, assets, asset_tags)
    /\ UNCHANGED << fs, dbVars, repository, scanVars, client, viewer >>

\* fetchResults takes the response.
ClientReceive ==
    /\ res # NoResponse
    /\ req' = NoRequest
    /\ parsedQuery' = EmptyPredicate
    /\ res' = NoResponse
    /\ UNCHANGED << fs, dbVars, repository, scanVars, client, viewer >>

Next ==
    \/ Reset
    \/ ScanStart
    \/ ScanResume
    \/ Search
    \/ ClientReceive

Spec == Init /\ [][Next]_vars

\* ------------------------------------------------------------------
\* A repository that starts rejecting writes
\* ------------------------------------------------------------------

\* RepositoryFailure: from now on the database accepts n more writes and
\* rejects every later one (a full disk, a lock that is not released).
RepositoryFailure ==
    /\ res = NoResponse
    /\ repository = WorkingRepository
    /\ \E n \in 0..MaxWrites : repository' = [left |-> n, rejected |-> FALSE]
    /\ UNCHANGED << fs, dbVars, scanVars, searchVars, viewer, client >>

NextFailure ==
    \/ Reset
    \/ ScanStart
    \/ ScanResume
    \/ RepositoryFailure

SpecFailure == Init /\ [][NextFailure]_vars

\* ------------------------------------------------------------------
\* The rescan of the browser: triggerScan and GET /api/scan/progress
\* ------------------------------------------------------------------

clientFrame == << fs, dbVars, repository, scanVars, searchVars, viewer >>

\* triggerScan up to its first await: a new EventSource is on its way to the
\* server and the 100 ms timer runs.
triggerScan ==
    /\ client.step = "none"
    /\ client.es \notin {"connecting", "open"}
    /\ client.rescans < MaxScans
    /\ client' = [client EXCEPT !.step = "waiting", !.es = "connecting",
                                !.inbox = << >>, !.closedOn = "none",
                                !.rescans = @ + 1]
    /\ UNCHANGED clientFrame

\* The server's handler of GET /api/scan/progress: the current scanProgress
\* is written to the stream at once, then the stream is registered for the
\* broadcasts.
ProgressStream ==
    /\ client.es = "connecting"
    /\ client' = [client EXCEPT !.es = "open", !.inbox = Append(@, scanProgress)]
    /\ UNCHANGED clientFrame

\* eventSource.onmessage on the next event of the stream.
onmessage ==
    /\ client.es = "open"
    /\ client.inbox # << >>
    /\ LET progress == Head(client.inbox)
       IN  client' =
              CASE progress.status = "complete" ->
                      [client EXCEPT !.toast = "Scan complete! Refreshing results.",
                                     !.es = "closed", !.closedOn = "complete",
                                     !.inbox = << >>, !.refreshes = @ + 1]
                [] progress.status = "error" ->
                      [client EXCEPT !.toast = "Scan failed",
                                     !.es = "closed", !.closedOn = "error",
                                     !.inbox = << >>]
                [] OTHER -> [client EXCEPT !.inbox = Tail(@)]
    /\ UNCHANGED clientFrame

\* The timer has run out: axios.post(`${API_URL}/reset`).
PostReset ==
    /\ client.step = "waiting"
    /\ client' = [client EXCEPT !.step = "resetPosted"]
    /\ UNCHANGED clientFrame

\* The reset is answered: axios.post(`${API_URL}/scan`).
PostScan ==
    /\ client.step = "resetDone"
    /\ client' = [client EXCEPT !.step = "scanPosted"]
    /\ UNCHANGED clientFrame

\* The server takes up the requests of the rescan.
NextClient ==
    \/ triggerScan
    \/ ProgressStream
    \/ onmessage
    \/ PostReset
    \/ client.step = "resetPosted" /\ Reset
    \/ PostScan
    \/ client.step = "scanPosted" /\ ScanStart
    \/ ScanResume

SpecClient == Init /\ [][NextClient]_vars

\* ------------------------------------------------------------------
\* The result page and the fullscreen viewer of the browser
\* ------------------------------------------------------------------

\* Number.prototype.toString: the decimal digits of n >= 0.
RECURSIVE Decimal(_)
Decimal(n) ==
    IF n < 10 THEN << DigitSeq[n + 1] >>
    ELSE Decimal(n \div 10) \o << DigitSeq[(n % 10) + 1] >>

\* A library of one artist with n images 1.jpg .. n.jpg.
GalleryOf(n) ==
    Dir(rootDirectory, << Dir(<< "g" >>, [k \in 1..n |-> File(jpg(Decimal(k)))]) >>)

\* Libraries of two pages with a single item or a full last page, and of
\* three pages.
Galleries ==
    {GalleryOf(n) : n \in {DefaultLimit + 1, 2 * DefaultLimit, 2 * DefaultLimit + 1}}

\* newParams.set('i', 23)
PreviousPageIndex == 23

viewerFrame == << fs, dbVars, repository, scanVars, searchVars, client >>

\* The effect on [items, viewerIndex]: an index past the end of the items is
\* set to the last one.
AutoCorrect(v) ==
    IF Len(v.items) > 0 /\ v.open /\ v.i >= Len(v.items)
    THEN [v EXCEPT !.i = Len(v.items) - 1] ELSE v

\* The effects run after the URL has changed: the effect on [searchParams]
\* calls fetchResults for the page of the URL, then the effect on
\* [items, viewerIndex] runs with the items shown at that moment.
UrlChanged(v) == AutoCorrect([v EXCEPT !.pending = @ \cup {v.page}])

\* The user acts on a page that has loaded.
Loaded == viewer.itemsPage # 0 /\ viewer.pending = {}

\* The App is mounted.
Mount ==
    /\ viewer = NoPage
    /\ viewer' = UrlChanged(viewer)
    /\ UNCHANGED viewerFrame

\* A search request of fetchResults is answered: setItems, setTotalPages.
fetchResults ==
    /\ \E pg \in viewer.pending :
          LET data == searchResponse(<< >>, << >>, Decimal(pg), << >>, assets, asset_tags)
              left == [viewer EXCEPT !.pending = @ \ {pg}]
          IN  viewer' =
                 IF data.status # 200 THEN left
                 ELSE AutoCorrect([left EXCEPT
                         !.items = data.items,
                         !.itemsPage = pg,
                         !.totalPages = IF data.totalPages = 0 THEN 1 ELSE data.totalPages])
    /\ UNCHANGED viewerFrame

handlePageChange ==
    /\ Loaded
    /\ \E newPage \in 1..viewer.totalPages :
          viewer' = UrlChanged([viewer EXCEPT !.page = newPage, !.open = FALSE,
                                              !.i = 0, !.p = 0, !.lastMove = "page"])
    /\ UNCHANGED viewerFrame

openViewer ==
    /\ Loaded
    /\ \E index \in 0..(Len(viewer.items) - 1) :
          viewer' = UrlChanged([viewer EXCEPT !.open = TRUE, !.i = index, !.p = 0,
                                              !.lastMove = "open"])
    /\ UNCHANGED viewerFrame

closeViewer ==
    /\ Loaded
    /\ viewer.open
    /\ viewer' = UrlChanged([viewer EXCEPT !.open = FALSE, !.i = 0, !.p = 0,
                                           !.lastMove = "close"])
    /\ UNCHANGED viewerFrame

\* navigateViewer(direction) with the effects its URL change sets off.
navigateViewer ==
    /\ Loaded
    /\ viewer.open
    /\ \E direction \in {0 - 1, 1} :
          LET v        == viewer
              inItems  == v.i < Len(v.items)
              isStory  == inItems /\ v.items[v.i + 1].type = "story"
              newPage  == v.p + direction
              newIndex == v.i + direction
          IN  viewer' =
                 IF isStory /\ newPage >= 0 /\ newPage < Len(v.items[v.i + 1].pages)
                 THEN UrlChanged([v EXCEPT !.p = newPage, !.lastMove = "storyPage"])
                 ELSE IF newIndex >= 0 /\ newIndex < Len(v.items)
                 THEN UrlChanged([v EXCEPT !.i = newIndex, !.p = 0, !.lastMove = "item"])
                 ELSE IF newIndex >= Len(v.items)
                 THEN IF v.page < v.totalPages
                      THEN UrlChanged([v EXCEPT !.page = @ + 1, !.i = 0, !.p = 0,
                                                !.lastMove = "nextPage"])
                      ELSE v
                 ELSE IF v.page > 1
                      THEN UrlChanged([v EXCEPT !.page = @ - 1, !.i = PreviousPageIndex,
                                                !.p = 0, !.lastMove = "previousPage"])
                      ELSE v
    /\ UNCHANGED viewerFrame

\* The server after one completed scan of a gallery, the App not yet mounted.
InitViewer ==
    /\ fs \in Galleries
    /\ LET artist  == fs.kids[1]
           db      == scanDirectory(artist, PathJoin(rootDirectory, artist.name),
                                    artist.name, << >>, EmptyDb)
           started == [current |-> 0, total |-> 1, status |-> "scanning",
                       currentItem |-> << >>]
           working == [started EXCEPT !.current = 1, !.currentItem = artist.name]
           done    == [working EXCEPT !.status = "complete"]
       IN  /\ assets = db.assets
           /\ asset_tags = db.asset_tags
           /\ seq = db.seq
           /\ scanProgress = done
           /\ events = << started, working, done >>
    /\ repository = WorkingRepository
    /\ scanPc = "idle"
    /\ scanIdx = 0
    /\ scans = 1
    /\ req = NoRequest
    /\ parsedQuery = EmptyPredicate
    /\ res = NoResponse
    /\ client = NoRescan
    /\ viewer = NoPage

NextViewer ==
    \/ Mount
    \/ fetchResults
    \/ handlePageChange
    \/ openViewer
    \/ closeViewer
    \/ navigateViewer

SpecViewer == InitViewer /\ [][NextViewer]_vars

\* ------------------------------------------------------------------
\* A file system that changes between scans
\* ------------------------------------------------------------------

\* Sequence xs without its j-th element.
Without(xs, j) == SubSeq(xs, 1, j - 1) \o SubSeq(xs, j + 1, Len(xs))

\* After the first scan a directory below an artist directory is deleted from
\* the disk with all beneath it; the scans read the tree anew with readdirSync.
EntryRemoved ==
    /\ res = NoResponse
    /\ scanPc = "idle"
    /\ scans = 1
    /\ fs \in Trees
    /\ \E i \in 1..Len(fs.kids) : \E j \in 1..Len(fs.kids[i].kids) :
          /\ fs.kids[i].kids[j].kind = "dir"
          /\ fs' = [fs EXCEPT !.kids[i].kids = Without(@, j)]
    /\ UNCHANGED << dbVars, repository, scanVars, searchVars, viewer, client >>

InitChange == Init /\ fs = TreeA

NextChange ==
    \/ Reset
    \/ ScanStart
    \/ ScanResume
    \/ Search
    \/ ClientReceive
    \/ EntryRemoved

SpecChange == InitChange /\ [][NextChange]_vars

\* ------------------------------------------------------------------
\* parseTagQuery on its own, applied to every short string
\* ------------------------------------------------------------------

QueryAlphabet == { "S", "C", ",", "|", "-", " " }

RECURSIVE StringsUpTo(_, _)
StringsUpTo(alphabet, n) ==
    IF n = 0 THEN { << >> }
    ELSE LET shorter == StringsUpTo(alphabet, n - 1)
         IN  shorter \cup {Append(x, c) : x \in {y \in shorter : Len(y) = n - 1},
                                          c \in alphabet}

RawQueries == StringsUpTo(QueryAlphabet, MaxLen)

\* One call of parseTagQuery per behaviour, on any of the strings.
ParseQuery ==
    /\ req = NoRequest
    /\ \E s \in RawQueries :
        /\ req' = [NoRequest EXCEPT !.q = s]
        /\ parsedQuery' = parseTagQuery(s)
        /\ UNCHANGED << fs, dbVars, repository, scanVars, res, client, viewer >>

NextParse == ParseQuery

InitParse == Init /\ fs = TreeA

SpecParse == InitParse /\ [][NextParse]_vars


\* ------------------------------------------------------------------
\* Vocabulary of the properties
\* ------------------------------------------------------------------

\* A search has been answered: req is the request, res the response.
Answered == res # NoResponse

\* The request leaves page and limit to their defaults.
DefaultPaging == req.page = << >> /\ req.limit = << >>

SeqSet(xs) == {xs[i] : i \in 1..Len(xs)}

\* The ids of the assets in the response.
ReturnedIds == {res.items[i].id : i \in 1..Len(res.items)}

IdsOf(rows) == {a.id : a \in rows}

\* Asset a holds tag t in the catalog.
HoldsTag(a, t) == \E j \in 1..Len(asset_tags) : asset_tags[j].asset_id = a.id /\ asset_tags[j].tag = t

HoldsEvery(a, tags) == \A t \in SeqSet(tags) : HoldsTag(a, t)

HoldsSome(a, tags) == \E t \in SeqSet(tags) : HoldsTag(a, t)

\* Section 3 of the specification: a satisfies the predicate pq.
Satisfies(a, pq) ==
    /\ HoldsEvery(a, pq.and)
    /\ pq.or = << >> \/ HoldsSome(a, pq.or)
    /\ ~HoldsSome(a, pq.not)

\* The text filter as the database applies it.
PassesTextFilter(a, text) ==
    \/ text = << >>
    \/ LikeMatch(likeQuery(text), a.artist)
    \/ LikeMatch(likeQuery(text), a.name)

\* The response is a result holding exactly the given assets; they all fit
\* on the first page of default size.
ReturnsExactly(rows) ==
    /\ res.status = 200
    /\ res.total = Cardinality(rows)
    /\ Cardinality(rows) <= DefaultLimit => ReturnedIds = IdsOf(rows)

PairwiseDistinct(xs) == \A i, j \in 1..Len(xs) : i # j => xs[i] # xs[j]

\* ------------------------------------------------------------------
\* C1: for every parsed predicate, also one with and and or both non-empty,
\* and every catalog, search returns exactly the assets that hold every tag in
\* and, at least one tag in or (if or is not empty) and no tag in not.
\* Stated for requests without text filter and with default paging, on
\* catalogs that fit on one page, and for predicates that repeat no and-tag.
\* ------------------------------------------------------------------
C1_SearchReturnsThePredicateMatches ==
    (/\ Answered /\ req.text = << >> /\ DefaultPaging
     /\ Cardinality(assets) <= DefaultLimit
     /\ PairwiseDistinct(parsedQuery.and))
        => ReturnedIds = IdsOf({a \in assets : Satisfies(a, parsedQuery)})

\* ------------------------------------------------------------------
\* C2: whatever the tag query and the text filter, a search against a working
\* repository is answered with a result, never with an error response.
\* ------------------------------------------------------------------
C2_SearchNeverAnswersWithAnError == Answered => res.status = 200

\* ------------------------------------------------------------------
\* C3: a query made only of AND clauses with pairwise distinct tags, with or
\* without a text filter, returns an asset iff it holds every listed tag (and
\* passes the text filter); an asset missing one of the tags is not returned.
\* ------------------------------------------------------------------
AndOnlyQuery ==
    /\ Answered /\ DefaultPaging
    /\ parsedQuery.and # << >> /\ parsedQuery.or = << >> /\ parsedQuery.not = << >>
    /\ PairwiseDistinct(parsedQuery.and)

C3_AndOnlyQueryReturnsHoldersOfEveryTag ==
    AndOnlyQuery =>
        ReturnsExactly({a \in assets : /\ HoldsEvery(a, parsedQuery.and)
                                       /\ PassesTextFilter(a, req.text)})

\* Two AND tags and a text filter: something is returned, and an asset that
\* holds the first tag but not the second is left out.
C3_Witness ==
    /\ AndOnlyQuery
    /\ Len(parsedQuery.and) = 2
    /\ req.text # << >>
    /\ ReturnedIds # {}
    /\ \E a \in assets :
          /\ a.id \notin ReturnedIds
          /\ HoldsTag(a, parsedQuery.and[1])
          /\ ~HoldsTag(a, parsedQuery.and[2])
          /\ PassesTextFilter(a, req.text)

\* ------------------------------------------------------------------
\* C4: a query made only of OR clauses, with or without NOT clauses and a
\* text filter, returns an asset iff it holds at least one of the OR tags and
\* passes the other filters.
\* ------------------------------------------------------------------
OrOnlyQuery ==
    /\ Answered /\ DefaultPaging
    /\ parsedQuery.and = << >> /\ parsedQuery.or # << >>

C4_OrOnlyQueryReturnsHoldersOfSomeTag ==
    OrOnlyQuery =>
        ReturnsExactly({a \in assets : /\ HoldsSome(a, parsedQuery.or)
                                       /\ ~HoldsSome(a, parsedQuery.not)
                                       /\ PassesTextFilter(a, req.text)})

\* OR tags with a NOT clause: an asset holding the second OR tag only is
\* returned, one holding an OR tag and the negated tag is left out.
C4_Witness ==
    /\ OrOnlyQuery
    /\ Len(parsedQuery.or) = 2
    /\ parsedQuery.not # << >>
    /\ \E a \in assets :
          /\ a.id \in ReturnedIds
          /\ ~HoldsTag(a, parsedQuery.or[1])
    /\ \E a \in assets :
          /\ a.id \notin ReturnedIds
          /\ HoldsSome(a, parsedQuery.or)
          /\ HoldsSome(a, parsedQuery.not)

\* ------------------------------------------------------------------
\* C5: no asset returned for a query with NOT clauses holds a negated tag;
\* a query made only of NOT clauses returns every asset that holds none of
\* the negated tags, assets without any tag included.
\* ------------------------------------------------------------------
NotOnlyQuery ==
    /\ Answered /\ DefaultPaging
    /\ parsedQuery.and = << >> /\ parsedQuery.or = << >> /\ parsedQuery.not # << >>

C5_NotClausesExcludeExactlyTheHolders ==
    /\ (Answered /\ parsedQuery.not # << >>) =>
          \A i \in 1..Len(res.items) : ~HoldsSome(res.items[i], parsedQuery.not)
    /\ NotOnlyQuery =>
          ReturnsExactly({a \in assets : /\ ~HoldsSome(a, parsedQuery.not)
                                         /\ PassesTextFilter(a, req.text)})

\* A NOT-only query without text filter: an asset without any tag is
\* returned and a holder of the negated tag is left out.
C5_Witness ==
    /\ NotOnlyQuery
    /\ req.text = << >>
    /\ \E a \in assets :
          /\ a.id \in ReturnedIds
          /\ \A j \in 1..Len(asset_tags) : asset_tags[j].asset_id # a.id
    /\ \E a \in assets :
          /\ a.id \notin ReturnedIds
          /\ HoldsSome(a, parsedQuery.not)

\* ------------------------------------------------------------------
\* C6: parseTagQuery splits the input on commas, trims each clause and drops
\* the empty ones; a clause starting with "-" puts its trimmed remainder into
\* not; any other clause containing "|" puts its trimmed non-empty
\* "|"-separated tokens into or; every other clause goes verbatim into and;
\* empty, blank or comma-only input yields the empty predicate.
\* ------------------------------------------------------------------

\* s without its leading and trailing blanks, by positions.
Trimmed(s) ==
    LET solid == {i \in 1..Len(s) : s[i] # " "}
    IN  IF solid = {} THEN << >>
        ELSE SubSeq(s, CHOOSE i \in solid : \A j \in solid : i <= j,
                       CHOOSE i \in solid : \A j \in solid : j <= i)

\* The pieces of s between consecutive occurrences of c, by positions.
PiecesOf(s, c) ==
    LET cuts == {0, Len(s) + 1} \cup {i \in 1..Len(s) : s[i] = c}
        Cut(k) == CHOOSE b \in cuts : Cardinality({x \in cuts : x < b}) = k - 1
    IN  [k \in 1..(Cardinality(cuts) - 1) |-> SubSeq(s, Cut(k) + 1, Cut(k + 1) - 1)]

TrimmedSolid(pieces) ==
    SelectSeq([k \in 1..Len(pieces) |-> Trimmed(pieces[k])], LAMBDA x : Len(x) > 0)

ClausesOfQuery(s) == TrimmedSolid(PiecesOf(s, ","))

IsNotClause(c) == c[1] = "-"

IsOrClause(c) == c[1] # "-" /\ \E i \in 1..Len(c) : c[i] = "|"

RECURSIVE Flatten(_)
Flatten(xss) == IF xss = << >> THEN << >> ELSE Head(xss) \o Flatten(Tail(xss))

\* The predicate the sentences above assign to the string s.
DescribedPredicate(s) ==
    LET cs   == ClausesOfQuery(s)
        nots == SelectSeq(cs, IsNotClause)
        ors  == SelectSeq(cs, IsOrClause)
    IN  [and |-> SelectSeq(cs, LAMBDA c : ~IsNotClause(c) /\ ~IsOrClause(c)),
         or  |-> Flatten([k \in 1..Len(ors) |-> TrimmedSolid(PiecesOf(ors[k], "|"))]),
         not |-> [k \in 1..Len(nots) |-> Trimmed(SubSeq(nots[k], 2, Len(nots[k])))]]

C6_ParseTagQueryFollowsTheClauseRules ==
    /\ parsedQuery = DescribedPredicate(req.q)
    /\ (\A i \in 1..Len(req.q) : req.q[i] \in {" ", ","}) => parsedQuery = EmptyPredicate

\* A query with an OR clause of two tokens and an AND clause has been parsed.
C6_Witness ==
    /\ Len(req.q) = MaxLen
    /\ Len(parsedQuery.or) = 2
    /\ Len(parsedQuery.and) = 1

\* ------------------------------------------------------------------
\* C7: a non-empty text filter restricts the result to exactly the assets
\* whose artist or name contains the filter text as a case-insensitive literal
\* substring, combined by AND with the tag predicate, for every filter text,
\* also one containing "%" or "_".  Stated for tag queries without OR clause
\* and without a repeated AND tag.
\* ------------------------------------------------------------------
ContainsIgnoringCase(str, text) ==
    \E k \in 0..(Len(str) - Len(text)) :
        \A i \in 1..Len(text) : LowerChar(str[k + i]) = LowerChar(text[i])

C7_TextFilterIsALiteralSubstringTest ==
    (/\ Answered /\ DefaultPaging
     /\ req.text # << >>
     /\ parsedQuery.or = << >>
     /\ PairwiseDistinct(parsedQuery.and))
        => ReturnsExactly({a \in assets :
                              /\ Satisfies(a, parsedQuery)
                              /\ \/ ContainsIgnoringCase(a.artist, req.text)
                                 \/ ContainsIgnoringCase(a.name, req.text)})

\* ------------------------------------------------------------------
\* C8: the items of every search response are in ascending order of
\* (artist, name) under natural comparison: artist first, name breaks ties,
\* digit runs compare by numeric value, case is ignored (a1 < a2 < a10).
\* ------------------------------------------------------------------

\* Length of the run of digits s starts with.
RECURSIVE DigitRun(_)
DigitRun(s) == IF s # << >> /\ IsDigit(Head(s)) THEN 1 + DigitRun(Tail(s)) ELSE 0

RECURSIVE NumberOf(_)
NumberOf(ds) ==
    IF ds = << >> THEN 0
    ELSE 10 * NumberOf(SubSeq(ds, 1, Len(ds) - 1)) + DigitVal(ds[Len(ds)])

Sign(x, y) == IF x < y THEN -1 ELSE IF x > y THEN 1 ELSE 0

\* Natural comparison of two strings, read side by side: where both have a
\* number the numbers are compared, elsewhere the characters without case.
RECURSIVE NaturalCompare(_, _)
NaturalCompare(a, b) ==
    IF a = << >> \/ b = << >> THEN Sign(Len(a), Len(b))
    ELSE IF IsDigit(Head(a)) /\ IsDigit(Head(b))
    THEN LET na == DigitRun(a)
             nb == DigitRun(b)
             c  == Sign(NumberOf(SubSeq(a, 1, na)), NumberOf(SubSeq(b, 1, nb)))
         IN  IF c # 0 THEN c
             ELSE NaturalCompare(SubSeq(a, na + 1, Len(a)), SubSeq(b, nb + 1, Len(b)))
    ELSE LET Rank(ch) == IF IsDigit(ch) THEN NumberWeight ELSE CharWeight(LowerChar(ch))
             c == Sign(Rank(Head(a)), Rank(Head(b)))
         IN  IF c # 0 THEN c ELSE NaturalCompare(Tail(a), Tail(b))

\* Item x does not come after item y in (artist, name) order.
InOrder(x, y) ==
    \/ NaturalCompare(x.artist, y.artist) < 0
    \/ NaturalCompare(x.artist, y.artist) = 0 /\ NaturalCompare(x.name, y.name) <= 0

C8_ItemsAreInNaturalOrderOfArtistAndName ==
    /\ NaturalCompare(<< "a", "1" >>, << "a", "2" >>) < 0
    /\ NaturalCompare(<< "a", "2" >>, << "a", "1", "0" >>) < 0
    /\ Answered =>
          \A i, j \in 1..Len(res.items) : i < j => InOrder(res.items[i], res.items[j])

\* A response in which artist a2 comes before artist a10 and, within one
\* artist, 2.jpg before 10.jpg before b.jpg.
C8_Witness ==
    /\ Answered
    /\ \E i, j \in 1..Len(res.items) :
          /\ i < j
          /\ res.items[i].artist = << "a", "2" >>
          /\ res.items[j].artist = << "a", "1", "0" >>
    /\ \E i \in 1..(Len(res.items) - 2) :
          /\ res.items[i].name = jpg(<< "2" >>)
          /\ res.items[i + 1].name = jpg(<< "1", "0" >>)
          /\ res.items[i + 2].name = jpg(<< "b" >>)

\* ------------------------------------------------------------------
\* C9: for page >= 1 and pageSize >= 1 the response holds the sorted matches
\* at positions (page-1)*pageSize .. page*pageSize-1 that exist, total is the
\* number of all matches before slicing, totalPages = ceil(total / pageSize),
\* and a page past the last one yields an empty list and no error.
\* ------------------------------------------------------------------

\* All matches of the request in the order of the response.
AllMatches == sortedItems(BuildSearch(req.q, req.text), assets, asset_tags)

PagedRequest ==
    /\ Answered
    /\ ~parseInt(req.page).nan => parseInt(req.page).n >= 0
    /\ ~parseInt(req.limit).nan => parseInt(req.limit).n >= 0

C9_PageIsTheSliceOfTheSortedMatches ==
    PagedRequest =>
        LET n     == Len(AllMatches)
            first == (res.page - 1) * res.limit
            rest  == IF n > first THEN n - first ELSE 0
        IN  /\ res.status = 200
            /\ res.page >= 1 /\ res.limit >= 1
            /\ ~parseInt(req.page).nan /\ parseInt(req.page).n >= 1
                  => res.page = parseInt(req.page).n
            /\ ~parseInt(req.limit).nan /\ parseInt(req.limit).n >= 1
                  => res.limit = parseInt(req.limit).n
            /\ res.total = n
            /\ Len(res.items) = (IF rest < res.limit THEN rest ELSE res.limit)
            /\ \A k \in 1..Len(res.items) : res.items[k] = AllMatches[first + k]
            /\ res.totalPages * res.limit >= n
            /\ (res.totalPages - 1) * res.limit < n
            /\ res.totalPages >= 0

\* ------------------------------------------------------------------
\* C10: for all directories containing at least one non-allowlisted segment
\* (a "+"-split token of the directory name that is not in the tag allowlist),
\* exactly one Story asset is created per such directory if it contains at
\* least one qualifying file, tagged with the accumulated ancestor tags plus
\* "Story".
\* ------------------------------------------------------------------

SegmentsOf(name) == SeqSet(folderTagsOf(name))

HasForeignSegment(name) == \E t \in SegmentsOf(name) : t \notin allowedTags

\* The directories below the directory node at path, each with the tags of
\* its allowlisted ancestors; inStory: node is, or lies inside, a directory
\* with a foreign segment.
RECURSIVE DirsBelow(_, _, _, _)
DirsBelow(node, path, tags, inStory) ==
    UNION {LET d == node.kids[i]
               p == PathJoin(path, d.name)
               story == inStory \/ HasForeignSegment(d.name)
           IN  IF d.kind # "dir" THEN {}
               ELSE {[path |-> p, node |-> d, tags |-> tags, inside |-> inStory]}
                    \cup DirsBelow(d, p, IF story THEN tags ELSE tags \cup SegmentsOf(d.name),
                                   story)
           : i \in 1..Len(node.kids)}

\* Some file with an allowed extension lies below node, at any depth.
RECURSIVE HasQualifyingFile(_)
HasQualifyingFile(node) ==
    \E i \in 1..Len(node.kids) :
        IF node.kids[i].kind = "dir" THEN HasQualifyingFile(node.kids[i])
        ELSE allowedFile(node.kids[i].name)

\* node and everything below it can be listed and inspected.
RECURSIVE Accessible(_)
Accessible(node) ==
    /\ node.statOk /\ node.readable
    /\ \A i \in 1..Len(node.kids) : Accessible(node.kids[i])

\* In the catalog (A, T) directory d is exactly one Story asset with the
\* accumulated tags plus "Story".
IsOneStory(d, A, T) ==
    /\ Cardinality({a \in A : a.path = d.path}) = 1
    /\ \A a \in A : a.path = d.path =>
          /\ a.type = "story"
          /\ TagsOf(T, a.id) = d.tags \cup {StoryTag}

\* The directories the scan of the current artist decides on: below the
\* artist directory, reached through tag folders only.
ClassifiedDirs ==
    LET artist == fs.kids[scanIdx]
    IN  {d \in DirsBelow(artist, PathJoin(rootDirectory, artist.name), {}, FALSE) : ~d.inside}

\* A step that scans the subtree of the artist at scanIdx (the only steps
\* that move scanIdx on while a scan waits).
ArtistScanned == scanPc = "yield" /\ scanIdx' # scanIdx /\ ScanResume

\* Once the scan of an artist's subtree has ended, every directory of that
\* subtree which the scan decides on, has a foreign segment and holds a
\* qualifying file (the directory and all its entries being readable) is
\* exactly one Story asset with the accumulated tags plus "Story".
C10_EveryForeignDirectoryBecomesOneStory ==
    [][ArtistScanned =>
          \A d \in ClassifiedDirs :
              (HasForeignSegment(d.node.name) /\ Accessible(d.node) /\ HasQualifyingFile(d.node))
                  => IsOneStory(d, assets', asset_tags')]_vars

\* ------------------------------------------------------------------
\* Vocabulary of the scan properties
\* ------------------------------------------------------------------

\* The indices of the artist directories in the root listing.
ArtistIndices == {i \in 1..Len(fs.kids) : fs.kids[i].kind = "dir"}

ArtistPath(i) == PathJoin(rootDirectory, fs.kids[i].name)

\* The directories below artist i that the scan decides on.
ClassifiedDirsOf(i) ==
    {d \in DirsBelow(fs.kids[i], ArtistPath(i), {}, FALSE) : ~d.inside}

\* Those of them whose name is made of allowlisted tokens only.
TagFoldersOf(i) == {d \in ClassifiedDirsOf(i) : ~HasForeignSegment(d.node.name)}

\* p is the path of something below directory dir.
IsBelow(p, dir) ==
    /\ Len(p) > Len(dir) + 1
    /\ SubSeq(p, 1, Len(dir)) = dir
    /\ p[Len(dir) + 1] = "/"

\* The segments of a path: root, artist, ..., name.
SegmentsOfPath(p) == PiecesOf(p, "/")

\* ------------------------------------------------------------------
\* C11: for every directory below an artist whose name splits on "+" into
\* allowlisted tokens only, no asset has that directory as its path, and
\* every asset indexed beneath it carries all of the directory's tokens and
\* the tags accumulated from its ancestors.
\* ------------------------------------------------------------------
C11_TagFoldersAreNoAssetsAndTagWhatIsBeneath ==
    \A i \in ArtistIndices : \A d \in TagFoldersOf(i) :
        /\ \A a \in assets : a.path # d.path
        /\ \A a \in assets : IsBelow(a.path, d.path) =>
              (d.tags \cup SegmentsOf(d.node.name)) \subseteq TagsOf(asset_tags, a.id)

\* After a completed scan the image below tag folder "S " of tag folder M
\* carries both M and S, and no asset is the folder M.
C11_Witness ==
    /\ scanProgress.status = "complete"
    /\ \E i \in ArtistIndices : \E d \in TagFoldersOf(i) :
          /\ d.node.name = << "S", " " >>
          /\ d.tags = {<< "M" >>}
          /\ \E a \in assets :
                /\ IsBelow(a.path, d.path)
                /\ TagsOf(asset_tags, a.id) = {<< "M" >>, << "S" >>}

\* ------------------------------------------------------------------
\* C12: after any scan of any tree, the artist of every indexed asset is the
\* name of the directory directly under the scan root that contains the
\* asset's path, and no asset is created for a file directly in the scan root.
\* ------------------------------------------------------------------
C12_ArtistIsTheRootLevelAncestor ==
    /\ \A a \in assets :
          LET segs == SegmentsOfPath(a.path)
          IN  /\ Len(segs) >= 3
              /\ segs[1] = rootDirectory
              /\ segs[2] = a.artist
              /\ \E i \in ArtistIndices : fs.kids[i].name = a.artist
    /\ \A i \in 1..Len(fs.kids) :
          fs.kids[i].kind = "file" =>
              \A a \in assets : a.path # PathJoin(rootDirectory, fs.kids[i].name)

\* A completed scan of a tree with a qualifying file in the root has indexed
\* assets of two artists, nested ones among them.
C12_Witness ==
    /\ scanProgress.status = "complete"
    /\ \E i \in 1..Len(fs.kids) : fs.kids[i].kind = "file" /\ allowedFile(fs.kids[i].name)
    /\ \E a, b \in assets :
          /\ a.artist # b.artist
          /\ Len(SegmentsOfPath(a.path)) > 3

\* ------------------------------------------------------------------
\* What a walk that passes over unreadable directories and uninspectable
\* entries would find below a directory
\* ------------------------------------------------------------------

\* The files classified as standalone: in node or in a chain of tag folders
\* below it, each with the tags of the chain and the directory it lies in.
RECURSIVE FilesIn(_, _, _)
FilesIn(node, path, tags) ==
    IF ~node.readable THEN {}
    ELSE UNION {LET k == node.kids[i]
                    p == PathJoin(path, k.name)
                IN  IF ~k.statOk THEN {}
                    ELSE IF k.kind = "file"
                    THEN {[path |-> p, node |-> k, tags |-> tags, dir |-> node]}
                    ELSE IF HasForeignSegment(k.name) THEN {}
                    ELSE FilesIn(k, p, tags \cup SegmentsOf(k.name))
                : i \in 1..Len(node.kids)}

\* The directories classified as Story, each with the tags of the chain.
RECURSIVE StoriesIn(_, _, _)
StoriesIn(node, path, tags) ==
    IF ~node.readable THEN {}
    ELSE UNION {LET k == node.kids[i]
                    p == PathJoin(path, k.name)
                IN  IF ~k.statOk \/ k.kind = "file" THEN {}
                    ELSE IF HasForeignSegment(k.name)
                    THEN {[path |-> p, node |-> k, tags |-> tags]}
                    ELSE StoriesIn(k, p, tags \cup SegmentsOf(k.name))
                : i \in 1..Len(node.kids)}

\* The paths of the files with an allowed extension beneath a directory, at
\* all nesting levels.
RECURSIVE PagesBeneath(_, _)
PagesBeneath(node, path) ==
    IF ~node.readable THEN {}
    ELSE UNION {LET k == node.kids[i]
                    p == PathJoin(path, k.name)
                IN  IF ~k.statOk THEN {}
                    ELSE IF k.kind = "dir" THEN PagesBeneath(k, p)
                    ELSE IF allowedFile(k.name) THEN {p} ELSE {}
                : i \in 1..Len(node.kids)}

\* The artist whose subtree a ScanResume step scans.
TheArtist == fs.kids[scanIdx]

ArtistFiles == FilesIn(TheArtist, ArtistPath(scanIdx), {})

ArtistStories == StoriesIn(TheArtist, ArtistPath(scanIdx), {})

HasUninspectableEntry(node) == \E i \in 1..Len(node.kids) : ~node.kids[i].statOk

\* ------------------------------------------------------------------
\* C13: the pages of every Story asset are exactly the files with an allowed
\* extension found anywhere beneath the Story directory (all nesting levels),
\* in natural sorted order; pages is never empty for a Story, and a Story
\* directory with no qualifying file produces no asset.
\* ------------------------------------------------------------------
C13_PagesAreAllQualifyingFilesBeneathInOrder ==
    [][ArtistScanned =>
          /\ \A a \in assets' : a.type = "story" => a.pages # << >>
          /\ \A st \in ArtistStories :
                LET want == PagesBeneath(st.node, st.path)
                IN  \A a \in assets' : a.path = st.path =>
                        /\ want # {}
                        /\ SeqSet(a.pages) = want
                        /\ Len(a.pages) = Cardinality(want)
                        /\ \A k, l \in 1..Len(a.pages) :
                              k < l => NaturalCompare(a.pages[k], a.pages[l]) <= 0]_vars

\* ------------------------------------------------------------------
\* C14: a file in an artist directory or in a chain of tag folders below it
\* is indexed as one standalone image asset (type image, name = file name, no
\* pages) with the current artist and exactly the de-duplicated accumulated
\* tags if its lower-cased extension is allowed, and is not indexed otherwise.
\* ------------------------------------------------------------------
C14_ClassifiedFilesBecomeImagesIffAllowed ==
    [][ArtistScanned =>
          \A f \in ArtistFiles :
              IF Member(toLowerCase(extname(f.node.name)), allowedExtensions)
              THEN /\ Cardinality({a \in assets' : a.path = f.path}) = 1
                   /\ \A a \in assets' : a.path = f.path =>
                         /\ a.type = "image"
                         /\ a.name = f.node.name
                         /\ a.pages = << >>
                         /\ a.artist = TheArtist.name
                         /\ TagsOf(asset_tags', a.id) = f.tags
                         /\ Cardinality({j \in 1..Len(asset_tags') :
                                            asset_tags'[j].asset_id = a.id})
                               = Cardinality(f.tags)
              ELSE \A a \in assets' : a.path # f.path]_vars

\* ------------------------------------------------------------------
\* C15: when a directory met during a scan (an artist directory, a tag
\* folder or a directory inside a Story) cannot be read, only its subtree is
\* skipped: the remaining entries are indexed and the scan ends as complete,
\* not as an error.
\* ------------------------------------------------------------------
C15_UnreadableDirectoryOnlyLosesItsSubtree ==
    [][ArtistScanned =>
          /\ scanProgress'.status # "error"
          /\ \A f \in ArtistFiles :
                allowedFile(f.node.name) => \E a \in assets' : a.path = f.path
          /\ \A st \in ArtistStories :
                PagesBeneath(st.node, st.path) # {} =>
                    \E a \in assets' : /\ a.path = st.path
                                       /\ SeqSet(a.pages) = PagesBeneath(st.node, st.path)]_vars

\* ------------------------------------------------------------------
\* C16: when a single directory entry cannot be inspected, only that entry
\* is skipped and the traversal continues with its siblings, in the
\* classifying walk and while gathering the pages of a Story: every other
\* qualifying file of the same directory is still indexed or included in the
\* Story's pages.
\* ------------------------------------------------------------------
C16_UninspectableEntryOnlyLosesItself ==
    [][ArtistScanned =>
          /\ \A f \in ArtistFiles :
                (HasUninspectableEntry(f.dir) /\ allowedFile(f.node.name))
                    => \E a \in assets' : a.path = f.path
          /\ \A st \in ArtistStories :
                HasUninspectableEntry(st.node) =>
                    \A i \in 1..Len(st.node.kids) :
                        LET k == st.node.kids[i]
                        IN  (k.statOk /\ k.kind = "file" /\ allowedFile(k.name)) =>
                                \E a \in assets' :
                                    /\ a.path = st.path
                                    /\ PathJoin(st.path, k.name) \in SeqSet(a.pages)]_vars

\* ------------------------------------------------------------------
\* Vocabulary of the re-scan properties
\* ------------------------------------------------------------------

\* The tags an asset's path gives it: the tokens of the directories between
\* the artist directory and the asset, and "Story" for a Story.
PathTags(a) ==
    LET segs == SegmentsOfPath(a.path)
    IN  UNION {SegmentsOf(segs[i]) : i \in 3..(Len(segs) - 1)}
        \cup (IF a.type = "story" THEN {StoryTag} ELSE {})

\* The number of asset_tags rows of asset id in table T.
TagRowCount(T, id) == Cardinality({j \in 1..Len(T) : T[j].asset_id = id})

\* The catalog without the ids: every asset with its set of tags.
View(A, T) ==
    {[path |-> a.path, type |-> a.type, artist |-> a.artist, name |-> a.name,
      pages |-> a.pages, tags |-> TagsOf(T, a.id)] : a \in A}

\* What a scan of artist i stores in an empty catalog.
FreshView(i) ==
    LET db == scanDirectory(fs.kids[i], ArtistPath(i), fs.kids[i].name, << >>, EmptyDb)
    IN  View(db.assets, db.asset_tags)

\* ------------------------------------------------------------------
\* C17: after a path is scanned again without a reset, the tag associations
\* of its asset are exactly the tags the latest scan assigns: none from the
\* earlier scan of the path survives and no tag is stored twice.
\* ------------------------------------------------------------------
C17_RescanReplacesTheTagsOfAPath ==
    [][ArtistScanned =>
          \A a \in assets : \A b \in assets' :
              (a.path = b.path /\ IsBelow(b.path, ArtistPath(scanIdx))) =>
                  /\ a.id # b.id => TagRowCount(asset_tags', a.id) = 0
                  /\ TagsOf(asset_tags', b.id) = PathTags(b)
                  /\ TagRowCount(asset_tags', b.id) = Cardinality(PathTags(b))]_vars

\* In the second scan of the seven-asset tree the first artist has been scanned
\* again: the image below S/C+S has a new row, with the tags S and C once each.
C17_Witness ==
    /\ scans = 2 /\ scanPc = "yield"
    /\ Cardinality(assets) = 7
    /\ \E a \in assets :
          /\ a.id > 7
          /\ a.name = jpg(<< "b" >>)
          /\ TagsOf(asset_tags, a.id) = {<< "S" >>, << "C" >>}
          /\ TagRowCount(asset_tags, a.id) = 2

\* ------------------------------------------------------------------
\* C18: the id of an asset is assigned on the first insert of its path and
\* is unchanged when the same path is scanned again.
\* ------------------------------------------------------------------
C18_TheIdOfAPathNeverChanges ==
    [][\A a \in assets : \A b \in assets' : a.path = b.path => a.id = b.id]_vars

\* ------------------------------------------------------------------
\* C19: re-scanning an unchanged tree is idempotent: after the second scan
\* the number of assets, the set of asset paths and the tag set of every path
\* are those after the first scan.
\* ------------------------------------------------------------------

\* The catalog holds the artist's subtree as a scan of it leaves it.
ArtistAlreadyScanned ==
    View({a \in assets : IsBelow(a.path, ArtistPath(scanIdx))}, asset_tags)
        = FreshView(scanIdx)

C19_RescanOfAnUnchangedTreeChangesNothing ==
    [][(ArtistScanned /\ ArtistAlreadyScanned) =>
          /\ Cardinality(assets') = Cardinality(assets)
          /\ {a.path : a \in assets'} = {a.path : a \in assets}
          /\ View(assets', asset_tags') = View(assets, asset_tags)]_vars

\* In the second scan the first artist has been scanned again (its rows are
\* new) while the rows of the next artist are still those of the first scan.
C19_Witness ==
    /\ scans = 2 /\ scanPc = "yield"
    /\ ArtistAlreadyScanned
    /\ FreshView(scanIdx) # {}
    /\ \E a \in assets : a.id > Cardinality(assets)
    /\ \A a \in assets : IsBelow(a.path, ArtistPath(scanIdx)) => a.id <= Cardinality(assets)

\* ------------------------------------------------------------------
\* C20: after any sequence of scans and resets every stored tag association
\* carries an allowlisted tag or "Story", every Story asset has the tag
\* "Story", and each asset's stored tags are the de-duplicated accumulated
\* tags (plus "Story" for a Story), every tag stored exactly once per asset.
\* ------------------------------------------------------------------
C20_StoredTagsAreTheAccumulatedTagsOnceEach ==
    /\ \A j \in 1..Len(asset_tags) : asset_tags[j].tag \in allowedTags \cup {StoryTag}
    /\ \A a \in assets :
          /\ a.type = "story" => StoryTag \in TagsOf(asset_tags, a.id)
          /\ TagsOf(asset_tags, a.id) = PathTags(a)
          /\ \A t \in PathTags(a) :
                Cardinality({j \in 1..Len(asset_tags) :
                                asset_tags[j].asset_id = a.id /\ asset_tags[j].tag = t}) = 1

\* After more than one scan the image below S/C+S, whose chain names S
\* twice, holds S and C in two rows, and a Story below C holds C and Story.
C20_Witness ==
    /\ scanProgress.status = "complete"
    /\ seq > Cardinality(assets)
    /\ \E a \in assets :
          /\ SegmentsOfPath(a.path)[3] = << "S" >>
          /\ SegmentsOfPath(a.path)[4] = << "C", "+", "S" >>
          /\ TagRowCount(asset_tags, a.id) = 2
    /\ \E a \in assets :
          /\ a.type = "story"
          /\ TagsOf(asset_tags, a.id) = {<< "C" >>, StoryTag}


\* ------------------------------------------------------------------
\* Search claims on the assembled statement and on paging
\* ------------------------------------------------------------------

\* The statement assembled for the request answered last.
AssembledStatement == BuildSearch(req.q, req.text)

\* The kind of value each "?" of a clause is written for: a tag or a LIKE
\* pattern (text), or the number compared with a count (int).
SlotKinds(clause) ==
    CASE clause.kind = "countGe" -> << "int" >>
      [] clause.kind = "sumCase" ->
            [i \in 1..clause.slots |-> IF i = clause.nAnd + 1 THEN "int" ELSE "text"]
      [] OTHER -> [i \in 1..clause.slots |-> "text"]

RECURSIVE SlotKindsOf(_)
SlotKindsOf(clauses) ==
    IF clauses = << >> THEN << >>
    ELSE SlotKinds(Head(clauses)) \o SlotKindsOf(Tail(clauses))

\* ------------------------------------------------------------------
\* C24: for every combination of AND tags, OR tags, NOT tags and text filter
\* the assembled SQL has exactly as many "?" as the parameter list has values,
\* and the i-th value is the one written for the i-th "?" (WHERE values in
\* clause order, then the HAVING values).
\* ------------------------------------------------------------------
C24_OneValuePerPlaceholderInOrder ==
    Answered =>
        LET stmt  == AssembledStatement
            kinds == SlotKindsOf(ClausesOf(stmt))
        IN  /\ Len(stmt.params) = Len(kinds)
            /\ \A i \in 1..Len(kinds) : stmt.params[i].t = kinds[i]


\* ------------------------------------------------------------------
\* C25: repeating a tag in the query does not change the result: a query that
\* lists the same AND tag more than once (e.g. "S,S") returns the same assets
\* as the query that lists it once.
\* ------------------------------------------------------------------
RepeatsAnAndTag ==
    /\ Answered
    /\ parsedQuery.or = << >> /\ parsedQuery.not = << >>
    /\ ~PairwiseDistinct(parsedQuery.and)

\* The answer to the same request with every AND tag listed once.
AnswerWithTagsListedOnce ==
    searchResponse(join(Unique(parsedQuery.and), ","), req.text, req.page, req.limit,
                   assets, asset_tags)

C25_RepeatedAndTagChangesNothing ==
    RepeatsAnAndTag => res = AnswerWithTagsListedOnce


\* ------------------------------------------------------------------
\* C26: every matching asset appears exactly once in the full (unsliced)
\* result of a search and is counted once in total, whatever the query and
\* however many of the asset's tag rows match the AND/OR tags.
\* ------------------------------------------------------------------
MatchingAssets == SelectAssets(AssembledStatement, assets, asset_tags)

\* The rows of the full result, before they are parsed, sorted and sliced.
FullResult == resultRows(AssembledStatement, assets, asset_tags)

C26_EveryMatchOnceInResultAndTotal ==
    (Answered /\ res.status = 200) =>
        /\ IdsOf(SeqSet(FullResult)) = IdsOf(MatchingAssets)
        /\ Len(FullResult) = Cardinality(MatchingAssets)
        /\ res.total = Cardinality(MatchingAssets)

\* An answered query for which two tag rows of one returned asset match.
C26_Witness ==
    /\ Answered /\ res.status = 200
    /\ \E a \in MatchingAssets :
          /\ Cardinality(JoinedRowsOf(AssembledStatement, a, asset_tags)) >= 2
          /\ a.id \in ReturnedIds


\* ------------------------------------------------------------------
\* C27: for every value of the page and limit request parameters (zero,
\* negative and non-numeric ones included) the returned items are exactly the
\* sorted matches at the 0-based positions (page-1)*limit .. page*limit-1 that
\* exist, for the page and limit reported in the response; the response never
\* holds more than limit items and holds none when page < 1.
\* ------------------------------------------------------------------

\* The elements of xs at the 0-based positions lo..hi that exist.
ExistingAt(xs, lo, hi) ==
    LET ks == {k \in lo..hi : k >= 0 /\ k < Len(xs)}
    IN  IF ks = {} THEN << >>
        ELSE SubSeq(xs, (CHOOSE k \in ks : \A m \in ks : k <= m) + 1,
                        (CHOOSE k \in ks : \A m \in ks : k >= m) + 1)

C27_AnyPageAndLimitYieldThatSlice ==
    (Answered /\ res.status = 200) =>
        /\ res.items = ExistingAt(AllMatches, (res.page - 1) * res.limit,
                                  res.page * res.limit - 1)
        /\ Len(res.items) <= res.limit
        /\ res.page < 1 => res.items = << >>


\* ------------------------------------------------------------------
\* Progress events
\* ------------------------------------------------------------------

\* The index in the root listing of the k-th artist directory.
RECURSIVE KthArtist(_, _)
KthArtist(k, from) ==
    LET j == NextArtist(fs.kids, from)
    IN  IF j = 0 \/ k = 1 THEN j ELSE KthArtist(k - 1, j + 1)

IsFinal(e) == e.status \in {"complete", "error"}

\* The events of one scan so far: the opening one, then the artists' events in
\* the order of the root listing, then at most one final event.
EventsInOrder ==
    events # << >> =>
        /\ events[1].status = "scanning" /\ events[1].current = 0
        /\ \A n \in 2..Len(events) :
              \/ n = Len(events) /\ IsFinal(events[n])
              \/ /\ events[n].status = "scanning"
                 /\ events[n].current = n - 1
                 /\ KthArtist(n - 1, 1) # 0
                 /\ events[n].currentItem = fs.kids[KthArtist(n - 1, 1)].name
        /\ IsFinal(events[Len(events)]) <=> scanPc = "idle"
        /\ \A n \in 1..Len(events) :
              0 <= events[n].current /\ events[n].current <= events[n].total

\* A step that broadcasts the event of an artist directory.
ArtistAnnounced ==
    /\ events' # events
    /\ events'[Len(events')].status = "scanning"
    /\ events'[Len(events')].current > 0

AssetsOfArtist(rows, name) == {a \in rows : a.artist = name}

\* ------------------------------------------------------------------
\* C23: during one scan the progress events are emitted in this order: one
\* event with status scanning and current = 0, then for the k-th artist
\* directory one event with current = k and currentItem = its name, sent
\* before any asset of that artist is indexed, then exactly one final event
\* with status complete (or error if the scan failed); in every event
\* 0 <= current <= total.
\* ------------------------------------------------------------------
C23_ProgressEventsComeInScanOrder ==
    /\ [](EventsInOrder)
    /\ [][ArtistAnnounced =>
            LET name == events'[Len(events')].currentItem
            IN  /\ AssetsOfArtist(assets', name) = AssetsOfArtist(assets, name)
                /\ scanPc' = "yield" /\ fs.kids[scanIdx'].name = name]_vars

\* A completed scan that announced and indexed two artist directories.
C23_Witness ==
    /\ Len(events) >= 4
    /\ events[Len(events)].status = "complete"
    /\ AssetsOfArtist(assets, events[2].currentItem) # {}
    /\ AssetsOfArtist(assets, events[3].currentItem) # {}


\* ------------------------------------------------------------------
\* What other requests find during a scan
\* ------------------------------------------------------------------

\* The scan waits in setImmediate: the only point where a search or a reset
\* is handled while it runs.
ScanYielded == scanPc = "yield"

\* The artist directories this scan has gone through.
StartedArtists ==
    {i \in 1..(scanIdx - 1) : fs.kids[i].statOk /\ fs.kids[i].kind = "dir"}

\* The catalog's assets below artist i, with their tags.
IndexedView(i) ==
    View({a \in assets : IsBelow(a.path, ArtistPath(i))}, asset_tags)

EveryAssetHasItsTags == \A a \in assets : TagsOf(asset_tags, a.id) = PathTags(a)

\* C29 as stated: a running scan lets other requests be served only at
\* artist boundaries, so a search or reset handled during a scan finds every
\* artist subtree either not yet started or completely indexed by this scan,
\* never half indexed, and never an asset stored without its tags.
C29_Original_StartedArtistsAreCompletelyIndexed ==
    ScanYielded =>
        /\ \A i \in StartedArtists : IndexedView(i) = FreshView(i)
        /\ EveryAssetHasItsTags

\* ------------------------------------------------------------------
\* C29 (amended): a search or reset handled during a scan finds every artist
\* subtree either not yet started, completely indexed by this scan, or emptied
\* by a reset handled since; never half indexed, and never an asset stored
\* without its tags.
\* ------------------------------------------------------------------
C29_StartedArtistsAreCompleteOrEmptied ==
    ScanYielded =>
        /\ \A i \in StartedArtists : IndexedView(i) \in {FreshView(i), {}}
        /\ EveryAssetHasItsTags

\* The scan waits before its second artist with the first one indexed in
\* full: several assets, tagged images and a Story among them.
C29_Witness ==
    /\ ScanYielded
    /\ \E i \in StartedArtists :
          /\ IndexedView(i) = FreshView(i)
          /\ Cardinality(IndexedView(i)) >= 3
          /\ \E v \in IndexedView(i) : v.type = "story"


\* ------------------------------------------------------------------
\* C22: assets and tag associations are removed only by reset or by
\* re-insertion of the same path: a search never changes the catalog, a scan
\* never removes the asset of a path it does not index in that pass (also
\* when the file no longer exists), and after a reset the catalog has no
\* asset and no tag association.
\* ------------------------------------------------------------------

\* The step stores a new row for path p.
Reinserted(p) == \E b \in assets' : b.path = p /\ b.id > seq

\* The tag rows of asset id, in order.
TagRowsOf(T, id) == SelectSeq(T, LAMBDA r : r.asset_id = id)

C22_RemovedOnlyByResetOrReinsertion ==
    [][/\ Reset => (assets' = {} /\ asset_tags' = << >>)
       /\ (Search \/ ClientReceive \/ EntryRemoved) => UNCHANGED dbVars
       /\ ~Reset =>
             \A a \in assets :
                \/ Reinserted(a.path)
                \/ /\ a \in assets'
                   /\ TagRowsOf(asset_tags', a.id) = TagRowsOf(asset_tags, a.id)]_vars

\* A scan has gone over the tree again after the Story r/a10/st was deleted
\* from the disk: the catalog still holds the Story, with its tags, next to
\* rows the later scan stored anew.
C22_Witness ==
    /\ fs \notin Trees
    /\ scans = 2 /\ scanPc = "idle" /\ scanProgress.status = "complete"
    /\ \E a \in assets :
          /\ a.type = "story"
          /\ \A i \in 1..Len(fs.kids) : \A j \in 1..Len(fs.kids[i].kids) :
                fs.kids[i].kids[j].name # a.name
          /\ StoryTag \in TagsOf(asset_tags, a.id)
          /\ \E b \in assets : b.id > a.id + 5


\* ------------------------------------------------------------------
\* C21: if the repository rejects a write in the middle of a scan, the scan
\* aborts and is reported to the caller as failed, and previously committed
\* state is not corrupted: every asset in the catalog afterwards has either
\* the complete tag set it had before the scan started or the complete tag
\* set this scan assigns to it, never a partial or empty one.
\* ------------------------------------------------------------------

\* A step of the scan in which the repository rejects a write.
WriteRejectedInScan ==
    /\ scanPc = "yield"
    /\ ~repository.rejected /\ repository'.rejected
    /\ ScanResume

C21_RejectedWriteAbortsScanAndKeepsTagSetsWhole ==
    [][WriteRejectedInScan =>
          /\ scanPc' = "idle" /\ scanProgress'.status = "error"
          /\ \A a \in assets' : TagsOf(asset_tags', a.id) = PathTags(a)]_vars


\* ------------------------------------------------------------------
\* C28: when the user triggers a rescan, the client shows "Scan complete",
\* closes its progress stream and refreshes the results only after the scan
\* request it issued has finished indexing; this holds for every rescan,
\* including one started after an earlier scan already completed or failed.
\* ------------------------------------------------------------------

\* The scan request of the latest rescan has been sent, served and answered.
OwnScanFinished == client.step = "none" /\ scans = client.rescans /\ scanPc = "idle"

C28_CompleteIsShownOnlyAfterTheOwnScan ==
    client.closedOn = "complete" => OwnScanFinished


\* ------------------------------------------------------------------
\* C30: in the fullscreen viewer, navigating backwards from the first item
\* of result page k > 1 loads page k-1 and, once its items have arrived, the
\* viewer shows the last item of page k-1, for every number of items on page
\* k and on page k-1.
\* ------------------------------------------------------------------

\* The viewer went back over the start of a page and the items of the page
\* before have arrived.
CameBackAndLoaded ==
    /\ viewer.lastMove = "previousPage"
    /\ viewer.pending = {}
    /\ viewer.itemsPage = viewer.page

C30_GoingBackShowsTheLastItemOfThePageBefore ==
    CameBackAndLoaded => (viewer.open /\ viewer.i = Len(viewer.items) - 1)

====
